---- MODULE Spec2Model ----
(***************************************************************************)
(* Verification model of the Goldbach tail replication scripts:            *)
(*   scripts/replicate_tail.py  (integer root, totient sieve, harmonic     *)
(*                               sums, tail margins, diagnostics, main)    *)
(*   scripts/per_q_envelope.py  (per-q override table and its loop)        *)
(* Python's unbounded integers are the model checker's integers where the  *)
(* bounds below keep them in range, and sequences of decimal digits where  *)
(* they do not.  A float is an IEEE 754 binary64 value and a Decimal a     *)
(* sign, a coefficient and an exponent, both computed digit for digit.     *)
(***************************************************************************)
EXTENDS Integers, Sequences, FiniteSets, TLC

VARIABLES
    \* int_nth_root_floor, one step per loop iteration
    n, k, lo, hi, rpc, rres,
    \* sieve_phi, one step per loop iteration; applied and exact record the
    \* updates made (history of the run, not program state)
    Q, phi, p, sk, spc, applied, exact,
    \* a Python process calling the functions of replicate_tail.py:
    \*   ctxprec  decimal.getcontext().prec, the process-wide precision
    \*   ipc      "ready" for a call, or "returned" from one
    \*   last     the latest call: function, arguments, the context precision
    \*            it was made under, outcome, locals
    \*   first    the first call of the process (history; Untracked if not kept)
    ctxprec, ipc, last, first,
    \* one run of main() of replicate_tail.py:
    \*   argv      the parsed command line (args)
    \*   cfgfile   the file --constants names
    \*   mpc       the position of the run
    \*   defaults, N_input, N_int, result   main's locals of these names
    \*   stdout, stderr   what the run has printed, in order
    \*   status    the exit status of the process
    argv, cfgfile, mpc, defaults, N_input, N_int, result, stdout, stderr, status,
    \* one run of per_q_envelope.py:
    \*   ns        the parsed command line, with N, L, R, CW of line 37
    \*   rows      perq.rows after load
    \*   qq        the loop variable q
    \*   ema, missing   the accumulators of line 40
    \*   Eqs       the envelope used for each q so far (history)
    \*   ppc       the position of the run
    \*   printed   the record printed on line 47
    ns, rows, qq, ema, missing, Eqs, ppc, printed

rootVars == <<n, k, lo, hi, rpc, rres>>
sieveVars == <<Q, phi, p, sk, spc, applied, exact>>
callVars == <<ctxprec, ipc, last, first>>
mainVars == <<argv, cfgfile, mpc, defaults, N_input, N_int, result, stdout,
              stderr, status>>
perqVars == <<ns, rows, qq, ema, missing, Eqs, ppc, printed>>
vars == <<rootVars, sieveVars, callVars, mainVars, perqVars>>

(***************************************************************************)
(* Bounds of the model.                                                    *)
(***************************************************************************)
MaxN == 260
MaxK == 5
MaxSieveQ == 30
MaxQ == 11
MaxPrec == 3
MaxMainDigits == 5

\* the exponent of Q = floor(N^(1/5)) (lines 114 and 161)
RootOfQ == 5
\* the default kmax of strict_diagnostics (line 156)
KMax == 5
\* the default prec of compute_tail_margins (line 107; base_prec of line 156
\* is the same number)
DefaultPrec == 50
\* the default hi_prec of strict_diagnostics (line 156)
HiPrec == 120

None == "None"

NoCall == [fn |-> "none"]
Untracked == [fn |-> "untracked"]

\* the outcome of a call: a value returned, or an exception raised
Return(v) == [status |-> "ok", value |-> v]
Raise(exc) == [status |-> exc, value |-> None]
\* the locals of a call that bound none of the sums
NoLocals == [Q |-> 0]

(***************************************************************************)
(* Helpers.                                                                *)
(***************************************************************************)
\* F applied to the value of x, x computed once (Python evaluates an
\* expression when it is assigned, not each time its name is read)
Bind(x, F(_)) == CHOOSE r \in {F(v) : v \in {x}} : TRUE

RECURSIVE Pow(_, _)
\* Python's b ** e for integers b and e >= 0
Pow(b, e) == IF e = 0 THEN 1 ELSE b * Pow(b, e - 1)

Abs(x) == IF x < 0 THEN 0 - x ELSE x

\* the elements of a sequence
Range(s) == {s[i] : i \in 1 .. Len(s)}

(***************************************************************************)
(* Sequences of decimal digits, most significant first.                    *)
(***************************************************************************)
\* m zeros (none for m <= 0)
Zeros(m) == [i \in 1 .. (IF m > 0 THEN m ELSE 0) |-> 0]

\* the sequence from its first nonzero digit on
StripZeros(d) ==
    IF \A i \in 1 .. Len(d) : d[i] = 0 THEN <<>>
    ELSE SubSeq(d, CHOOSE i \in 1 .. Len(d) :
                      d[i] # 0 /\ \A j \in 1 .. i - 1 : d[j] = 0, Len(d))

RECURSIVE SmallInt(_, _)
\* the value of a short run of digits
SmallInt(d, acc) ==
    IF d = <<>> THEN acc ELSE SmallInt(Tail(d), acc * 10 + d[1])

\* a < b for the digit sequences of two non-negative ints
MagLess(a, b) ==
    \/ Len(a) < Len(b)
    \/ /\ Len(a) = Len(b)
       /\ \E i \in 1 .. Len(a) :
            a[i] < b[i] /\ \A j \in 1 .. i - 1 : a[j] = b[j]

\* the elements of a function on 1 .. n computed, as a sequence
AsSeq(f) == SubSeq(f, 1, Len(f))

\* floor(d / 2), of the same length
HalveDigits(d) ==
    AsSeq([i \in 1 .. Len(d) |->
             ((IF i = 1 THEN 0 ELSE (d[i - 1] % 2) * 10) + d[i]) \div 2])

IsOddDigits(d) == d # <<>> /\ d[Len(d)] % 2 = 1

\* d + 1
IncrementDigits(d) ==
    LET j == IF \E i \in 1 .. Len(d) : d[i] # 9
               THEN CHOOSE i \in 1 .. Len(d) :
                       d[i] # 9 /\ \A l \in i + 1 .. Len(d) : d[l] = 9
               ELSE 0
    IN  IF j = 0 THEN <<1>> \o Zeros(Len(d))
        ELSE AsSeq([i \in 1 .. Len(d) |->
                      IF i < j THEN d[i] ELSE IF i = j THEN d[i] + 1 ELSE 0])

\* the int with the given sign and digits
BigInt(neg, digs) ==
    Bind(StripZeros(digs), LAMBDA m : [neg |-> neg /\ m # <<>>, mag |-> m])

(***************************************************************************)
(* Python ints of any size: the decimal digits of the magnitude, most      *)
(* significant first, none for zero.                                       *)
(***************************************************************************)
RECURSIVE DigitsOfInt(_)
\* the digits of an integer i >= 0 of the model checker's range
DigitsOfInt(i) == IF i = 0 THEN <<>> ELSE DigitsOfInt(i \div 10) \o <<i % 10>>

\* the digits of i >= 0, w of them
Padded(i, w) == Bind(DigitsOfInt(i), LAMBDA d : Zeros(w - Len(d)) \o d)

\* the number of digits taken at a time with a multiplier of magnitude mult, for
\* the products to stay in the model checker's integer range
Width(mult) == IF mult <= 200 THEN 7 ELSE IF mult <= 200000 THEN 4 ELSE 1

RECURSIVE Lin(_, _, _, _, _)
\* <<carry, digits>> with carry * 10^Len(a) + digits = ka * a + kb * b + c,
\* for digit sequences a and b of one length (halves, the low one first)
Lin(a, ka, b, kb, c) ==
    IF Len(a) <= Width(ka)
      THEN Bind(ka * SmallInt(a, 0) + kb * SmallInt(b, 0) + c, LAMBDA v :
                <<v \div Pow(10, Len(a)), Padded(v % Pow(10, Len(a)), Len(a))>>)
    ELSE Bind(Len(a) \div 2, LAMBDA h :
         Bind(Lin(SubSeq(a, h + 1, Len(a)), ka, SubSeq(b, h + 1, Len(a)), kb, c),
              LAMBDA low :
         Bind(Lin(SubSeq(a, 1, h), ka, SubSeq(b, 1, h), kb, low[1]), LAMBDA high :
              <<high[1], high[2] \o low[2]>>)))

\* a + b
AddDigits(a, b) ==
    Bind(IF Len(a) > Len(b) THEN Len(a) ELSE Len(b), LAMBDA m :
    Bind(Lin(Zeros(m - Len(a)) \o a, 1, Zeros(m - Len(b)) \o b, 1, 0), LAMBDA r :
         StripZeros(<<r[1]>> \o r[2])))

\* a - b for a >= b
SubDigits(a, b) == StripZeros(Lin(a, 1, Zeros(Len(a) - Len(b)) \o b, 0 - 1, 0)[2])

\* a * m for 0 <= m < 2 * 10^8
MulSmall(a, m) ==
    Bind(Lin(a, m, a, 0, 0), LAMBDA r : StripZeros(DigitsOfInt(r[1]) \o r[2]))

RECURSIVE MulDigits(_, _)
\* a * b, b taken eight digits at a time
MulDigits(a, b) ==
    IF Len(b) <= 8 THEN MulSmall(a, SmallInt(b, 0))
    ELSE Bind(MulDigits(a, SubSeq(b, 1, Len(b) - 8)), LAMBDA high :
              AddDigits(IF high = <<>> THEN <<>> ELSE high \o Zeros(8),
                        MulSmall(a, SmallInt(SubSeq(b, Len(b) - 7, Len(b)), 0))))

RECURSIVE DivLoop(_, _, _)
\* <<quotient digits, remainder>> of r * 10^Len(a) + a by d, for r < d
\* (halves, the high one first)
DivLoop(a, d, r) ==
    IF Len(a) <= Width(d)
      THEN Bind(r * Pow(10, Len(a)) + SmallInt(a, 0), LAMBDA v :
                <<Padded(v \div d, Len(a)), v % d>>)
    ELSE Bind(Len(a) \div 2, LAMBDA h :
         Bind(DivLoop(SubSeq(a, 1, h), d, r), LAMBDA high :
         Bind(DivLoop(SubSeq(a, h + 1, Len(a)), d, high[2]), LAMBDA low :
              <<high[1] \o low[1], low[2]>>)))

\* divmod(a, d) for 0 < d < 2 * 10^8: <<quotient, remainder as an integer>>
DivSmall(a, d) == Bind(DivLoop(a, d, 0), LAMBDA r : <<StripZeros(r[1]), r[2]>>)

\* the digits brought down at a time in a long division
DivWidth == 4

RECURSIVE Settle(_, _, _, _)
\* divmod(cur, b) from the guess t of the quotient and prod = b * t
Settle(cur, b, t, prod) ==
    IF MagLess(cur, prod) THEN Settle(cur, b, t - 1, SubDigits(prod, b))
    ELSE Bind(SubDigits(cur, prod), LAMBDA r :
              IF MagLess(r, b) THEN <<t, r>>
              ELSE Settle(cur, b, t + 1, AddDigits(prod, b)))

\* divmod(cur, b) for cur < 10^DivWidth * b: the quotient guessed on the
\* leading digits (the divisor cut to five), then settled
QuotientLimb(cur, b) ==
    LET cut == IF Len(b) > DivWidth + 1 THEN Len(b) - DivWidth - 1 ELSE 0
    IN  IF MagLess(cur, b) THEN <<0, cur>>
        ELSE Bind(SmallInt(SubSeq(cur, 1, Len(cur) - cut), 0)
                     \div SmallInt(SubSeq(b, 1, Len(b) - cut), 0), LAMBDA g :
                  Settle(cur, b, g, MulSmall(b, g)))

RECURSIVE LongDivision(_, _, _)
\* long division by b of the digits a (DivWidth of them, or a multiple)
\* brought down on the remainder r < b: <<the quotient digits, the
\* remainder>> (halves, the high one first)
LongDivision(a, b, r) ==
    IF Len(a) = 0 THEN <<<<>>, r>>
    ELSE IF Len(a) = DivWidth
      THEN Bind(QuotientLimb(StripZeros(r \o a), b), LAMBDA d :
                <<Padded(d[1], DivWidth), d[2]>>)
    ELSE Bind(DivWidth * ((Len(a) \div DivWidth) \div 2), LAMBDA h :
         Bind(LongDivision(SubSeq(a, 1, h), b, r), LAMBDA high :
         Bind(LongDivision(SubSeq(a, h + 1, Len(a)), b, high[2]), LAMBDA low :
              <<high[1] \o low[1], low[2]>>)))

\* divmod(a, b) for b > 0: <<quotient, remainder>>
DivDigits(a, b) ==
    IF Len(b) <= 8
      THEN Bind(DivSmall(a, SmallInt(b, 0)), LAMBDA r : <<r[1], DigitsOfInt(r[2])>>)
    ELSE Bind(LongDivision(Zeros((DivWidth - (Len(a) % DivWidth)) % DivWidth) \o a,
                           b, <<>>),
              LAMBDA r : <<StripZeros(r[1]), r[2]>>)

\* the largest step of a shift: 2^26 < 2 * 10^8
ShiftStep == 26

RECURSIVE ShiftLeft(_, _)
\* a << s (the shift split in halves)
ShiftLeft(a, s) ==
    IF s <= 0 \/ a = <<>> THEN a
    ELSE IF s <= ShiftStep THEN MulSmall(a, Pow(2, s))
    ELSE Bind(ShiftLeft(a, s \div 2), LAMBDA h : ShiftLeft(h, s - s \div 2))

RECURSIVE ShiftRight(_, _)
\* <<a >> s, whether any bit shifted out was set>>
ShiftRight(a, s) ==
    IF s <= 0 \/ a = <<>> THEN <<a, FALSE>>
    ELSE IF s <= ShiftStep
      THEN Bind(DivSmall(a, Pow(2, s)), LAMBDA d : <<d[1], d[2] # 0>>)
    ELSE Bind(ShiftRight(a, s \div 2), LAMBDA h :
         Bind(ShiftRight(h[1], s - s \div 2), LAMBDA g : <<g[1], h[2] \/ g[2]>>))

(***************************************************************************)
(* Python floats: IEEE 754 binary64, round to nearest, ties to even.  A    *)
(* finite float is [kind |-> "fin", neg, m, e], the value (-1)^neg * m *   *)
(* 2^e with m an odd integer below 2^53 (its digits) and e >= -1074, or    *)
(* m = <<>>, e = 0 for a zero; the others are [kind |-> "inf", neg] and    *)
(* [kind |-> "nan"], m and e as in a zero.                                 *)
(***************************************************************************)
Pow2_53 == <<9, 0, 0, 7, 1, 9, 9, 2, 5, 4, 7, 4, 0, 9, 9, 2>>
\* the exponents of the least subnormal, 2^-1074, and of the bound 2^1024
MinExp == 0 - 1074
MaxExp == 1024
MantissaBits == 53

FloatZero(neg) == [kind |-> "fin", neg |-> neg, m |-> <<>>, e |-> 0]
FloatInf(neg) == [kind |-> "inf", neg |-> neg, m |-> <<>>, e |-> 0]
FloatNan == [kind |-> "nan", neg |-> FALSE, m |-> <<>>, e |-> 0]

IsZero(x) == x.kind = "fin" /\ x.m = <<>>

\* a lower and an upper bound of the number of bits of a > 0
BitsAtLeast(a) == ((Len(a) - 1) * 3321) \div 1000 + 1
BitsAtMost(a) == (Len(a) * 3322) \div 1000 + 1

RECURSIVE StripTwos(_, _, _)
\* <<m / 2^t, e + t>> for the largest t with 2^t dividing m > 0, tried in
\* steps of j bits
StripTwos(m, e, j) ==
    IF IsOddDigits(m) THEN <<m, e>>
    ELSE Bind(DivSmall(m, Pow(2, j)), LAMBDA d :
              IF d[2] = 0 THEN StripTwos(d[1], e + j, j)
              ELSE StripTwos(m, e, j \div 2))

\* the float of value m * 2^e exactly, for m <= 2^53 and e >= MinExp: an
\* infinity from 2^1024 on
Float(neg, m, e) ==
    IF m = <<>> THEN FloatZero(neg)
    ELSE IF e + BitsAtLeast(m) > MaxExp
            \/ (e + BitsAtMost(m) > MaxExp
                  /\ ~MagLess(ShiftLeft(m, e + MantissaBits - MaxExp), Pow2_53))
      THEN FloatInf(neg)
    ELSE Bind(StripTwos(m, e, 16), LAMBDA c :
              [kind |-> "fin", neg |-> neg, m |-> c[1], e |-> c[2]])

\* the mantissa q rounded to even on the bit rnd below it and the bits
\* stk below that
RoundMantissa(q, rnd, stk) ==
    IF rnd /\ (stk \/ IsOddDigits(q)) THEN IncrementDigits(q) ELSE q

RECURSIVE HalveToMantissa(_, _, _, _)
\* q * 2^e halved until q has 53 bits and e >= MinExp: <<mantissa, exponent,
\* the last bit dropped, whether any bit dropped before it was set>>
HalveToMantissa(q, e, rnd, stk) ==
    IF MagLess(q, Pow2_53) /\ e >= MinExp THEN <<q, e, rnd, stk>>
    ELSE HalveToMantissa(StripZeros(HalveDigits(q)), e + 1, IsOddDigits(q),
                         stk \/ rnd)

\* the float nearest (a + f) * 2^e, for an integer a > 0 and a fraction
\* 0 <= f < 1 that is nonzero iff stk (a of 55 bits or more when stk).  The
\* first shifts are taken at once: all the bits but 53 go, and all below
\* 2^MinExp.
FloatRound(neg, a, e, stk) ==
    LET s1   == BitsAtLeast(a) - MantissaBits - 2
        s2   == MinExp - 1 - e
        skip == IF s1 > s2 /\ s1 > 0 THEN s1 ELSE IF s2 > 0 THEN s2 ELSE 0
    IN  Bind(ShiftRight(a, skip), LAMBDA pre :
        Bind(HalveToMantissa(pre[1], e + skip, FALSE, stk \/ pre[2]), LAMBDA h :
             Float(neg, RoundMantissa(h[1], h[3], h[4]), h[2])))

\* the float nearest num / den * 2^e, for integers num >= 0 and den > 0:
\* the quotient is taken to 55 bits or more, its remainder sticky
FloatQuotient(neg, num, den, e) ==
    LET s0 == MantissaBits + 2 + BitsAtMost(den) - BitsAtLeast(num)
        s  == IF s0 > 0 THEN s0 ELSE 0
    IN  IF num = <<>> THEN FloatZero(neg)
        ELSE Bind(DivDigits(ShiftLeft(num, s), den), LAMBDA d :
                  FloatRound(neg, d[1], e - s, d[2] # <<>>))

\* -x
FloatNeg(x) == IF x.kind = "nan" THEN x ELSE [x EXCEPT !.neg = ~x.neg]

\* abs(x)
FloatAbs(x) == [x EXCEPT !.neg = FALSE]

\* x + y
FloatAdd(x, y) ==
    IF x.kind = "nan" \/ y.kind = "nan" THEN FloatNan
    ELSE IF x.kind = "inf"
      THEN IF y.kind = "inf" /\ y.neg # x.neg THEN FloatNan ELSE x
    ELSE IF y.kind = "inf" THEN y
    ELSE IF IsZero(x) /\ IsZero(y) THEN FloatZero(x.neg /\ y.neg)
    ELSE IF IsZero(x) THEN y
    ELSE IF IsZero(y) THEN x
    ELSE Bind(IF x.e < y.e THEN x.e ELSE y.e, LAMBDA e :
         Bind(<<ShiftLeft(x.m, x.e - e), ShiftLeft(y.m, y.e - e)>>, LAMBDA a :
              IF x.neg = y.neg THEN FloatRound(x.neg, AddDigits(a[1], a[2]), e, FALSE)
              ELSE IF a[1] = a[2] THEN FloatZero(FALSE)
              ELSE IF MagLess(a[1], a[2])
                THEN FloatRound(y.neg, SubDigits(a[2], a[1]), e, FALSE)
              ELSE FloatRound(x.neg, SubDigits(a[1], a[2]), e, FALSE)))

\* x - y
FloatSub(x, y) == FloatAdd(x, FloatNeg(y))

\* x * y
FloatMul(x, y) ==
    IF x.kind = "nan" \/ y.kind = "nan" THEN FloatNan
    ELSE IF x.kind = "inf" \/ y.kind = "inf"
      THEN IF IsZero(x) \/ IsZero(y) THEN FloatNan ELSE FloatInf(x.neg # y.neg)
    ELSE IF IsZero(x) \/ IsZero(y) THEN FloatZero(x.neg # y.neg)
    ELSE FloatRound(x.neg # y.neg, MulDigits(x.m, y.m), x.e + y.e, FALSE)

\* x / y for y nonzero (Python raises ZeroDivisionError for a zero y)
FloatDiv(x, y) ==
    IF x.kind = "nan" \/ y.kind = "nan" THEN FloatNan
    ELSE IF x.kind = "inf"
      THEN IF y.kind = "inf" THEN FloatNan ELSE FloatInf(x.neg # y.neg)
    ELSE IF y.kind = "inf" \/ IsZero(x) THEN FloatZero(x.neg # y.neg)
    ELSE FloatQuotient(x.neg # y.neg, x.m, y.m, x.e - y.e)

\* x < y
FloatLess(x, y) ==
    /\ x.kind # "nan" /\ y.kind # "nan"
    /\ Bind(FloatSub(x, y), LAMBDA d : d.neg /\ ~IsZero(d) /\ d.kind # "nan")

\* the float nearest digs * 10^ex (float() of a literal).  Below one the
\* quotient by 10^-ex is taken to 55 bits or more: the digits of
\* digs * 2^s before the last -ex, the rest sticky
FloatOfLiteral(neg, digs, ex) ==
    Bind(StripZeros(digs), LAMBDA mag :
        LET s0 == MantissaBits + 2 + BitsAtMost(<<1>> \o Zeros(0 - ex))
                     - BitsAtLeast(mag)
            s  == IF s0 > 0 THEN s0 ELSE 0
        IN  IF mag = <<>> THEN FloatZero(neg)
            ELSE IF Len(mag) + ex > 310 THEN FloatInf(neg)
            ELSE IF Len(mag) + ex < 0 - 324 THEN FloatZero(neg)
            ELSE IF ex >= 0 THEN FloatRound(neg, mag \o Zeros(ex), 0, FALSE)
            ELSE Bind(ShiftLeft(mag, s), LAMBDA T :
                      FloatRound(neg, SubSeq(T, 1, Len(T) + ex), 0 - s,
                                 StripZeros(SubSeq(T, Len(T) + ex + 1, Len(T)))
                                    # <<>>)))

\* int(x) for a finite x: the digits of the magnitude truncated
IntOfFloat(x) ==
    IF x.e >= 0 THEN ShiftLeft(x.m, x.e) ELSE ShiftRight(x.m, 0 - x.e)[1]

\* float(i) of an int given by its digits: the nearest double, an infinity
\* where Python raises OverflowError
FloatOfDigits(neg, mag) == FloatRound(neg, mag, 0, FALSE)

\* the positive float m * 2^e, m odd
Double(m, e) == [kind |-> "fin", neg |-> FALSE, m |-> m, e |-> e]

\* the float literals of the code: 1.0 (line 73), 8.0 (line 140), 160.0
\* (line 102), 2.0 (per_q_envelope.py line 37)
One == Double(<<1>>, 0)
Two == Double(<<1>>, 1)
Eight == Double(<<1>>, 3)
OneSixty == Double(<<5>>, 5)

(***************************************************************************)
(* math.log(N_float) (line 133) and N_float ** 0.6 (line 134) are the C    *)
(* library's log and pow.  They are tabulated for the N of the runs        *)
(* explored, keyed by the digits of N: <<log(N), pow(N, 0.6)>> as CPython  *)
(* 3.11 on glibc returns them.                                             *)
(***************************************************************************)
LibmTable ==
    <<8>> :>
        <<Double(<<4, 6, 8, 2, 4, 8, 6, 0, 7, 6, 1, 2, 4, 0, 1, 9>>, 0 - 51),
          Double(<<2, 4, 5, 0, 3, 8, 1, 9, 9, 5, 2, 9, 2, 2, 5>>, 0 - 46)>>
  @@
    <<3, 2>> :>
        <<Double(<<7, 8, 0, 4, 1, 4, 3, 4, 6, 0, 2, 0, 6, 6, 9, 9>>, 0 - 51),
          Double(<<9, 0, 0, 7, 1, 9, 9, 2, 5, 4, 7, 4, 0, 9, 9, 1>>, 0 - 50)>>
  @@
    <<3, 3>> :>
        <<Double(<<7, 8, 7, 3, 4, 3, 5, 0, 7, 5, 4, 5, 9, 2, 8, 1>>, 0 - 51),
          Double(<<1, 1, 4, 6, 8, 8, 0, 4, 7, 7, 5, 1, 7, 7, 0, 9>>, 0 - 47)>>
  @@
    <<2, 4, 2>> :>
        <<Double(<<3, 0, 8, 9, 9, 9, 7, 2, 3, 7, 2, 7, 2, 3, 8, 9>>, 0 - 49),
          Double(<<7, 5, 8, 1, 0, 4, 3, 8, 9, 8, 5, 6, 3, 6, 1, 7>>, 0 - 48)>>
  @@
    <<2, 4, 3>> :>
        <<Double(<<6, 1, 8, 4, 6, 3, 7, 3, 6, 7, 3, 3, 7, 9, 3, 3>>, 0 - 50),
          Double(<<7, 5, 9, 9, 8, 2, 4, 3, 7, 1, 1, 8, 7, 7, 1, 1>>, 0 - 48)>>
  @@
    <<1, 0, 2, 3>> :>
        <<Double(<<7, 8, 0, 3, 0, 4, 3, 4, 1, 1, 3, 5, 8, 2, 2, 9>>, 0 - 50),
          Double(<<9, 0, 0, 1, 9, 2, 0, 5, 6, 7, 6, 6, 5, 4, 7, 7>>, 0 - 47)>>
  @@
    <<1, 0, 2, 4>> :>
        <<Double(<<7, 8, 0, 4, 1, 4, 3, 4, 6, 0, 2, 0, 6, 6, 9, 9>>, 0 - 50),
          Double(<<9, 0, 0, 7, 1, 9, 9, 2, 5, 4, 7, 4, 0, 9, 9, 1>>, 0 - 47)>>
  @@
    <<3, 1, 2, 4>> :>
        <<Double(<<4, 5, 2, 9, 9, 8, 4, 8, 1, 6, 3, 8, 2, 0, 6, 9>>, 0 - 49),
          Double(<<8, 7, 9, 4, 4, 0, 4, 0, 6, 4, 2, 4, 5, 1, 9, 9>>, 0 - 46)>>
  @@
    <<3, 1, 2, 5>> :>
        <<Double(<<7, 0, 7, 8, 3, 8, 2, 7, 9, 5, 6, 1, 9, 3>>, 0 - 43),
          Double(<<4, 3, 9, 8, 0, 4, 6, 5, 1, 1, 1, 0, 3, 9, 9, 9>>, 0 - 45)>>
  @@
    <<7, 7, 7, 5>> :>
        <<Double(<<5, 0, 4, 3, 2, 8, 2, 1, 4, 8, 2, 3, 7, 8, 1, 7>>, 0 - 49),
          Double(<<7, 5, 9, 9, 2, 3, 7, 9, 4, 9, 9, 0, 2, 8, 6, 1>>, 0 - 45)>>
  @@
    <<7, 7, 7, 6>> :>
        <<Double(<<5, 0, 4, 3, 3, 5, 4, 5, 4, 8, 7, 2, 0, 6, 4, 1>>, 0 - 49),
          Double(<<3, 7, 9, 9, 9, 1, 2, 1, 8, 5, 5, 9, 3, 8, 5, 5>>, 0 - 44)>>
  @@
    <<1, 6, 8, 0, 6>> :>
        <<Double(<<5, 4, 7, 7, 2, 1, 6, 6, 4, 2, 8, 9, 7, 6, 7, 5>>, 0 - 49),
          Double(<<7, 5, 4, 2, 3, 8, 0, 4, 9, 5, 1, 8, 5, 2, 9>>, 0 - 41)>>
  @@
    <<1, 6, 8, 0, 7>> :>
        <<Double(<<5, 4, 7, 7, 2, 5, 0, 1, 3, 8, 8, 6, 3, 7, 3, 5>>, 0 - 49),
          Double(<<6, 0, 3, 4, 1, 1, 9, 8, 1, 3, 2, 3, 4, 6, 8, 7>>, 0 - 44)>>
  @@
    <<3, 2, 7, 6, 7>> :>
        <<Double(<<5, 8, 5, 3, 0, 9, 0, 4, 1, 5, 0, 2, 3, 6, 9, 1>>, 0 - 49),
          Double(<<2, 8, 1, 4, 6, 9, 8, 2, 2, 7, 1, 8, 4, 4, 3>>, 0 - 39)>>
  @@
    <<3, 2, 7, 6, 8>> :>
        <<Double(<<3, 6, 5, 8, 1, 9, 2, 2, 4, 6, 9, 7, 1, 8, 9>>, 0 - 45),
          Double(<<4, 5, 0, 3, 5, 9, 9, 6, 2, 7, 3, 7, 0, 4, 9, 5>>, 0 - 43)>>
  @@
    <<3, 3, 0, 0, 0>> :>
        <<Double(<<1, 4, 6, 4, 2, 6, 9, 8, 2, 0, 3, 5, 3, 4, 0, 9>>, 0 - 47),
          Double(<<4, 5, 2, 2, 7, 0, 4, 1, 2, 8, 3, 1, 7, 1, 8, 5>>, 0 - 43)>>
  @@
    <<5, 9, 0, 4, 8>> :>
        <<Double(<<6, 1, 8, 4, 6, 2, 7, 8, 3, 3, 6, 5, 0, 3, 1, 3>>, 0 - 49),
          Double(<<3, 2, 0, 6, 1, 4, 3, 3, 2, 8, 3, 6, 2, 1, 6, 7>>, 0 - 42)>>
  @@
    <<5, 9, 0, 4, 9>> :>
        <<Double(<<6, 1, 8, 4, 6, 3, 7, 3, 6, 7, 3, 3, 7, 9, 3, 3>>, 0 - 49),
          Double(<<3, 2, 0, 6, 1, 7, 5, 9, 0, 6, 5, 9, 4, 8, 1, 5>>, 0 - 42)>>
  @@
    <<9, 9, 9, 9, 9>> :>
        <<Double(<<6, 4, 8, 1, 1, 9, 5, 2, 2, 4, 7, 2, 0, 3, 4, 5>>, 0 - 49),
          Double(<<8, 7, 9, 6, 0, 4, 0, 2, 4, 5, 5, 4, 4, 3, 1, 1>>, 0 - 43)>>
  @@
    <<1, 0, 0, 0, 0, 0>> :>
        <<Double(<<6, 4, 8, 1, 2, 0, 0, 8, 5, 4, 2, 4, 8, 0, 2, 7>>, 0 - 49),
          Double(<<4, 3, 9, 8, 0, 4, 6, 5, 1, 1, 1, 0, 3, 9, 9, 9>>, 0 - 42)>>
  @@
    <<1, 6, 1, 0, 5, 0>> :>
        <<Double(<<4, 2, 1, 8, 4, 1, 9, 7, 9, 0, 7, 2, 9, 9, 9>>, 0 - 45),
          Double(<<5, 8, 5, 3, 7, 7, 8, 0, 9, 7, 7, 5, 7, 2, 4, 3>>, 0 - 42)>>
  @@
    <<1, 6, 1, 0, 5, 1>> :>
        <<Double(<<6, 7, 4, 9, 4, 7, 5, 1, 6, 0, 6, 5, 5, 1, 3, 5>>, 0 - 49),
          Double(<<2, 9, 2, 6, 8, 9, 9, 9, 5, 3, 1, 3, 9, 7, 1, 1>>, 0 - 41)>>
  @@
    <<2, 4, 8, 8, 3, 1>> :>
        <<Double(<<3, 4, 9, 7, 1, 9, 4, 0, 7, 5, 6, 9, 9, 0, 8, 3>>, 0 - 48),
          Double(<<7, 5, 9, 9, 8, 0, 6, 0, 4, 5, 9, 7, 9, 1, 8, 5>>, 0 - 42)>>
  @@
    <<2, 4, 8, 8, 3, 2>> :>
        <<Double(<<1, 7, 4, 8, 5, 9, 7, 6, 0, 3, 4, 4, 3, 0, 7, 9>>, 0 - 47),
          Double(<<3, 7, 9, 9, 9, 1, 2, 1, 8, 5, 5, 9, 3, 8, 5, 5>>, 0 - 41)>>
  @@
    <<3, 7, 1, 2, 9, 2>> :>
        <<Double(<<7, 2, 1, 9, 6, 8, 9, 0, 9, 0, 3, 6, 5, 0, 4, 1>>, 0 - 49),
          Double(<<4, 8, 3, 1, 2, 4, 6, 2, 8, 5, 2, 6, 0, 3, 8, 1>>, 0 - 41)>>
  @@
    <<3, 7, 1, 2, 9, 3>> :>
        <<Double(<<7, 2, 1, 9, 6, 9, 0, 6, 0, 6, 5, 5, 4, 9, 8, 1>>, 0 - 49),
          Double(<<4, 8, 3, 1, 2, 5, 4, 0, 9, 2, 4, 4, 7, 7, 4, 3>>, 0 - 41)>>
  @@
    <<5, 3, 7, 8, 2, 3>> :>
        <<Double(<<7, 4, 2, 8, 2, 8, 4, 9, 5, 7, 1, 9, 6, 6, 3, 7>>, 0 - 49),
          Double(<<6, 0, 3, 4, 1, 1, 3, 0, 8, 1, 5, 2, 8, 3, 3, 9>>, 0 - 41)>>
  @@
    <<5, 3, 7, 8, 2, 4>> :>
        <<Double(<<7, 4, 2, 8, 2, 8, 6, 0, 0, 3, 9, 1, 5, 4, 0, 9>>, 0 - 49),
          Double(<<3, 0, 1, 7, 0, 5, 9, 9, 0, 6, 6, 1, 7, 3, 4, 3>>, 0 - 40)>>
  @@
    <<9, 0, 0, 7, 1, 9, 9, 2, 5, 4, 7, 4, 0, 9, 9, 2>> :>
        <<Double(<<2, 5, 8, 5, 1, 2, 2, 5, 2, 1, 1, 9, 3, 4, 6, 9>>, 0 - 46),
          Double(<<3, 9, 2, 0, 6, 1, 1, 1, 9, 2, 4, 6, 7, 5, 9, 7>>, 0 - 20)>>
  @@
    <<3, 5, 0, 0, 0, 0, 0, 0, 0, 0, 0, 0, 0, 0, 0, 0, 0, 0, 0>> :>
        <<Double(<<6, 0, 0, 9, 3, 9, 1, 4, 8, 2, 5, 1, 3, 8, 2, 7>>, 0 - 47),
          Double(<<4, 3, 8, 4, 2, 0, 4, 0, 7, 6, 7, 7, 4, 4, 1, 5>>, 0 - 15)>>
  @@
    <<3, 9, 0, 0, 0, 0, 0, 0, 0, 0, 0, 0, 0, 0, 0, 0, 0, 0, 0>> :>
        <<Double(<<1, 5, 0, 6, 1, 5, 5, 2, 9, 7, 6, 5, 5, 5, 0, 5>>, 0 - 45),
          Double(<<4, 6, 7, 8, 3, 0, 6, 8, 0, 0, 5, 2, 0, 8, 8, 9>>, 0 - 15)>>
  @@
    <<4, 0, 0, 0, 0, 0, 0, 0, 0, 0, 0, 0, 0, 0, 0, 0, 0, 0, 0>> :>
        <<Double(<<7, 5, 3, 5, 2, 3, 0, 4, 4, 4, 1, 6, 0, 4, 9>>, 0 - 44),
          Double(<<4, 7, 4, 9, 9, 1, 6, 0, 0, 3, 8, 7, 8, 1, 4, 1>>, 0 - 15)>>
  @@
    <<4, 5, 0, 0, 0, 0, 0, 0, 0, 0, 0, 0, 0, 0, 0, 0, 0, 0, 0>> :>
        <<Double(<<6, 0, 4, 4, 7, 6, 0, 8, 4, 3, 9, 3, 7, 5, 3, 7>>, 0 - 47),
          Double(<<1, 5, 9, 3, 0, 4, 2, 8, 7, 6, 4, 2, 1, 0, 9>>, 0 - 10)>>
  @@
    <<1, 0, 0, 0, 0, 0, 0, 0, 0, 0, 0, 0, 0, 0, 0, 0, 0, 0, 0, 0, 0>> :>
        <<Double(<<6, 4, 8, 1, 2, 0, 0, 8, 5, 4, 2, 4, 8, 0, 2, 7>>, 0 - 47),
          Double(<<1, 0, 2, 3, 9, 9, 9, 9, 9, 9, 9, 9, 9, 9, 9, 9>>, 0 - 10)>>
  @@
    <<9, 9, 9, 9, 9, 9, 9, 9, 9, 9, 9, 9, 9, 9, 9, 9, 1, 6, 1, 1, 3, 9, 2>> :>
        <<Double(<<7, 4, 5, 3, 3, 8, 0, 9, 8, 2, 3, 8, 5, 2, 3, 1>>, 0 - 47),
          Double(<<2, 5, 2, 3, 8, 2, 9, 3, 7, 7, 9, 2, 0, 7, 7>>, 0 - 2)>>
  @@
    <<9, 9, 9, 9, 9, 9, 9, 9, 9, 9, 9, 9, 9, 9, 9, 9, 4, 9, 3, 8, 7, 1, 3, 5, 2, 9, 7, 0, 7, 4, 0, 1, 8, 8, 6, 6, 9, 6, 3, 6, 4, 5, 0, 1, 1, 0, 1, 3, 4, 1, 0, 0, 7, 3, 0, 8, 3, 9, 0, 4>> :>
        <<Double(<<1, 2, 1, 5, 2, 2, 5, 1, 6, 0, 1, 7, 1, 5, 0, 5>>, 0 - 43),
          Double(<<3, 3, 8, 8, 1, 3, 1, 7, 8, 9, 0, 1, 7, 1, 9, 1>>, 68)>>

\* math.log(x) for a float x of the table
MathLog(x) == LibmTable[IntOfFloat(x)][1]

\* x ** 0.6 for a float x of the table
PowSixTenths(x) == LibmTable[IntOfFloat(x)][2]

\* x ** 2: pow(x, 2.0), the square correctly rounded (it is for every
\* logarithm of the table)
FloatSquare(x) == FloatMul(x, x)

(***************************************************************************)
(* int_nth_root_floor(n, k)                 replicate_tail.py lines 36-50  *)
(***************************************************************************)
\* line 37: the argument check that raises ValueError
RootArgsInvalid(nn, kk) == nn < 0 \/ kk <= 0

\* line 42: the doubling loop's condition
DoubleCond(h, nn, kk) == Pow(h, kk) <= nn

\* line 43: hi <<= 1
DoubleStep(h) == h * 2

\* line 44: the bisection loop's condition
BisectCond(l, h) == h - l > 1

\* the comparison of line 46 made strict
BisectStepStrict(l, h, nn, kk) ==
    LET mid == (l + h) \div 2
    IN  IF Pow(mid, kk) < nn THEN <<mid, h>> ELSE <<l, mid>>

\* lines 45-49: one bisection step, the new <<lo, hi>>
BisectStep(l, h, nn, kk) ==
    LET mid == (l + h) \div 2
    IN  IF Pow(mid, kk) <= nn THEN <<mid, h>> ELSE <<l, mid>>

RECURSIVE RootDoubleLoop(_, _, _)
\* lines 42-43: the doubling loop from hi = h on, the final hi
RootDoubleLoop(h, nn, kk) ==
    IF DoubleCond(h, nn, kk)
      THEN Bind(DoubleStep(h), LAMBDA next : RootDoubleLoop(next, nn, kk))
      ELSE h

RECURSIVE RootBisectLoop(_, _, _, _)
\* lines 44-50: the bisection loop from <<l, h>> on, the lo returned
RootBisectLoop(l, h, nn, kk) ==
    IF BisectCond(l, h)
      THEN Bind(BisectStep(l, h, nn, kk),
                LAMBDA next : RootBisectLoop(next[1], next[2], nn, kk))
      ELSE l

\* int_nth_root_floor as a call, lines 36-50
int_nth_root_floor(nn, kk) ==
    IF RootArgsInvalid(nn, kk) THEN Raise("ValueError")
    ELSE IF nn < 2 THEN Return(nn)
    ELSE Bind(RootDoubleLoop(1, nn, kk),
              LAMBDA h : Return(RootBisectLoop(0, h, nn, kk)))

(***************************************************************************)
(* sieve_phi(Q)                             replicate_tail.py lines 52-60  *)
(***************************************************************************)
RECURSIVE GCD(_, _)
GCD(a, b) == IF b = 0 THEN a ELSE Bind(a % b, LAMBDA r : GCD(b, r))

\* Euler's totient by its definition (the reference the sieve is held to)
Totient(m) == Cardinality({i \in 1 .. m : GCD(i, m) = 1})

IsPrime(m) == m >= 2 /\ \A d \in 2 .. m - 1 : m % d # 0

PrimeDivisors(m) == {d \in 2 .. m : IsPrime(d) /\ m % d = 0}

\* the list f with every entry computed (a Python list holds its values
\* from the statement that builds it)
Built(f) == CHOOSE g \in {f} : g = f

\* line 55: phi = list(range(Q + 1))
SieveTable(QQ) == Built([i \in 0 .. QQ |-> i])

\* line 57: p is untouched so far
SieveUntouched(ph, pp) == ph[pp] = pp

\* the inner loop started at 2p instead of p
SieveInnerStartSkip(pp) == 2 * pp

\* line 58: the first index of range(p, Q + 1, p)
SieveInnerStart(pp) == pp

\* line 59: phi[k] -= phi[k] // p
SieveUpdate(ph, kk, pp) == [ph EXCEPT ![kk] = @ - (@ \div pp)]

RECURSIVE SieveInner(_, _, _, _)
\* lines 58-59: the inner loop from index kk on
SieveInner(ph, pp, kk, QQ) ==
    IF kk > QQ THEN ph
    ELSE Bind(SieveUpdate(ph, kk, pp),
              LAMBDA next : SieveInner(next, pp, kk + pp, QQ))

RECURSIVE SieveOuter(_, _, _)
\* lines 56-59: the outer loop from candidate pp on
SieveOuter(ph, pp, QQ) ==
    IF pp > QQ THEN ph
    ELSE Bind(IF SieveUntouched(ph, pp)
                THEN SieveInner(ph, pp, SieveInnerStart(pp), QQ)
                ELSE ph,
              LAMBDA next : SieveOuter(next, pp + 1, QQ))

\* sieve_phi as a call: ValueError for Q < 0 (lines 53-54), else the table
sieve_phi(QQ) ==
    IF QQ < 0 THEN Raise("ValueError")
    ELSE Bind(SieveTable(QQ), LAMBDA ph : Return(SieveOuter(ph, 2, QQ)))

(***************************************************************************)
(* fractions.Fraction: <<numerator, denominator>> in lowest terms with a   *)
(* positive denominator, as Fraction keeps its values.                     *)
(***************************************************************************)
\* Fraction(a, b) for b > 0
Frac(a, b) == Bind(GCD(Abs(a), b), LAMBDA g : <<a \div g, b \div g>>)

\* Fraction.__add__
FracAdd(x, y) ==
    Bind(GCD(x[2], y[2]), LAMBDA g :
    Bind(<<x[1] * (y[2] \div g) + y[1] * (x[2] \div g), x[2] * (y[2] \div g)>>,
         LAMBDA s : Frac(s[1], s[2])))

\* Fraction.__lt__ (both over the least common denominator)
FracLess(x, y) ==
    Bind(GCD(x[2], y[2]),
         LAMBDA g : x[1] * (y[2] \div g) < y[1] * (x[2] \div g))

\* the accumulator overwritten by the term instead of added to
FracAccumulateAssign(S, q, ph) == Frac(1, q * ph)

\* line 94: S += Fraction(1, q * ph)
FracAccumulate(S, q, ph) == Bind(Frac(1, q * ph), LAMBDA t : FracAdd(S, t))

RECURSIVE FracSumLoop(_, _, _, _)
\* lines 92-94: the loop of harmonic_sum_fraction from q on
FracSumLoop(ph, q, QQ, S) ==
    IF q > QQ THEN S
    ELSE Bind(FracAccumulate(S, q, ph[q]),
              LAMBDA next : FracSumLoop(ph, q + 1, QQ, next))

\* harmonic_sum_fraction(Q), lines 87-95
harmonic_sum_fraction(QQ) ==
    IF QQ < 0 THEN Raise("ValueError")
    ELSE Bind(sieve_phi(QQ).value,
              LAMBDA ph : Return(FracSumLoop(ph, 2, QQ, Frac(0, 1))))

(***************************************************************************)
(* decimal.Decimal: [s, c, e] is (-1)^s * c * 10^e, the sign, the digits   *)
(* of the coefficient and the exponent of Decimal.as_tuple() (a zero has   *)
(* the one digit 0).  Every operation rounds its result to the context     *)
(* precision, ROUND_HALF_EVEN.                                             *)
(***************************************************************************)
Dec(sign, coef, exp) == [s |-> sign, c |-> coef, e |-> exp]

\* the coefficient of the int whose digits are d
Coefficient(d) == Bind(StripZeros(d), LAMBDA m : IF m = <<>> THEN <<0>> ELSE m)

\* Decimal(i) for an integer i >= 0: exact, whatever the precision
DecInt(i) == Dec(0, Coefficient(DigitsOfInt(i)), 0)

\* the number of zeros d ends with
TrailingZeros(d) ==
    IF \A i \in 1 .. Len(d) : d[i] = 0 THEN Len(d)
    ELSE Len(d) - (CHOOSE i \in 1 .. Len(d) :
                       d[i] # 0 /\ \A j \in i + 1 .. Len(d) : d[j] = 0)

\* Decimal._fix: the coefficient rounded half-even to prec digits
DecFix(sign, coef, exp, prec) ==
    IF Len(coef) <= prec THEN Dec(sign, coef, exp)
    ELSE LET keep == SubSeq(coef, 1, prec)
             rest == SubSeq(coef, prec + 1, Len(coef))
             up   == \/ rest[1] > 5
                     \/ /\ rest[1] = 5
                        /\ \/ StripZeros(Tail(rest)) # <<>>
                           \/ keep[prec] % 2 = 1
         IN  Bind(IF up THEN IncrementDigits(keep) ELSE keep, LAMBDA r :
                  IF Len(r) > prec
                    THEN Dec(sign, SubSeq(r, 1, prec), exp + Len(rest) + 1)
                    ELSE Dec(sign, r, exp + Len(rest)))

\* Decimal.__truediv__ of a by a nonzero b at precision prec: the quotient
\* of the coefficients to prec + 1 digits or more; a remainder makes a
\* last digit 0 or 5 one more, and an exact quotient drops its zeros down to
\* the exponent a.e - b.e
DecDiv(a, b, prec) ==
    LET sign  == IF a.s = b.s THEN 0 ELSE 1
        shift == Len(b.c) - Len(a.c) + prec + 1
        exp   == a.e - b.e - shift
    IN  IF a.c = <<0>> THEN DecFix(sign, <<0>>, a.e - b.e, prec)
        ELSE Bind(IF shift >= 0 THEN DivDigits(a.c \o Zeros(shift), b.c)
                  ELSE DivDigits(a.c, b.c \o Zeros(0 - shift)), LAMBDA d :
             IF d[2] # <<>>
               THEN DecFix(sign, IF d[1][Len(d[1])] % 5 = 0
                                   THEN IncrementDigits(d[1]) ELSE d[1],
                           exp, prec)
             ELSE Bind(IF TrailingZeros(d[1]) < shift THEN TrailingZeros(d[1])
                       ELSE IF shift > 0 THEN shift ELSE 0, LAMBDA cut :
                       DecFix(sign, SubSeq(d[1], 1, Len(d[1]) - cut), exp + cut,
                              prec)))

\* Decimal.__mul__ at precision prec
DecMul(a, b, prec) ==
    DecFix(IF a.s = b.s THEN 0 ELSE 1,
           Coefficient(MulDigits(StripZeros(a.c), StripZeros(b.c))),
           a.e + b.e, prec)

\* the magnitude of a in units of 10^e, e <= a.e
Aligned(a, e) == StripZeros(a.c \o Zeros(a.e - e))

\* Decimal.__add__ at precision prec: the exact sum, rounded; a zero sum of
\* opposite signs is +0
DecAdd(a, b, prec) ==
    LET e == IF a.e < b.e THEN a.e ELSE b.e
    IN  Bind(<<Aligned(a, e), Aligned(b, e)>>, LAMBDA v :
            IF a.s = b.s
              THEN DecFix(a.s, Coefficient(AddDigits(v[1], v[2])), e, prec)
            ELSE IF v[1] = v[2] THEN DecFix(0, <<0>>, e, prec)
            ELSE IF MagLess(v[1], v[2])
              THEN DecFix(b.s, SubDigits(v[2], v[1]), e, prec)
            ELSE DecFix(a.s, SubDigits(v[1], v[2]), e, prec))

\* Decimal.__sub__ at precision prec: the sum with the negated operand
DecSub(a, b, prec) == DecAdd(a, Dec(1 - b.s, b.c, b.e), prec)

\* Decimal.__abs__ at precision prec
DecAbs(a, prec) == DecFix(0, a.c, a.e, prec)

\* Decimal.__lt__: the exact values compared
DecLess(a, b) ==
    LET e == IF a.e < b.e THEN a.e ELSE b.e
    IN  Bind(<<Aligned(a, e), Aligned(b, e)>>, LAMBDA v :
            IF v[1] = <<>> /\ v[2] = <<>> THEN FALSE
            ELSE IF a.s = 1 /\ v[1] # <<>>
              THEN b.s = 0 \/ v[2] = <<>> \/ MagLess(v[2], v[1])
            ELSE b.s = 0 /\ v[2] # <<>> /\ MagLess(v[1], v[2]))

\* float(d) of a Decimal: float(str(d)), the double nearest its value
FloatOfDecimal(d) == FloatOfLiteral(d.s = 1, d.c, d.e)

\* Fraction.__float__: numerator / denominator, int true division, which
\* rounds the exact quotient once
FloatOfFraction(f) ==
    FloatQuotient(f[1] < 0, DigitsOfInt(Abs(f[1])), DigitsOfInt(f[2]), 0)

\* the assignment of line 79 left out: the ambient precision stays in force
SetPrecOmitted(ctx, prec) == ctx

\* line 79: getcontext().prec = prec
SetPrec(ctx, prec) == prec

\* the term taken as 1/q, the totient left out
DecAccumulateNoPhi(S, q, ph, ctx) ==
    Bind(DecDiv(DecInt(1), DecInt(q), ctx), LAMBDA t : DecAdd(S, t, ctx))

\* line 84: S += Decimal(1) / (Decimal(q) * Decimal(ph)), at the precision
\* of the current context
DecAccumulate(S, q, ph, ctx) ==
    Bind(DecMul(DecInt(q), DecInt(ph), ctx), LAMBDA d :
    Bind(DecDiv(DecInt(1), d, ctx), LAMBDA t : DecAdd(S, t, ctx)))

RECURSIVE DecSumLoop(_, _, _, _, _)
\* lines 82-84: the loop of harmonic_sum_decimal from q on
DecSumLoop(ph, q, QQ, S, ctx) ==
    IF q > QQ THEN S
    ELSE Bind(DecAccumulate(S, q, ph[q], ctx),
              LAMBDA next : DecSumLoop(ph, q + 1, QQ, next, ctx))

\* harmonic_sum_decimal(Q, prec) called under the context precision ctx,
\* lines 76-85: the outcome and the context precision it leaves behind
harmonic_sum_decimal(QQ, prec, ctx) ==
    IF QQ < 0 THEN [ctx |-> ctx, ret |-> Raise("ValueError")]
    ELSE Bind(<<SetPrec(ctx, prec), sieve_phi(QQ).value>>,
              LAMBDA v : [ctx |-> v[1],
                          ret |-> Return(DecSumLoop(v[2], 2, QQ, DecInt(0), v[1]))])

(***************************************************************************)
(* sieve_phi_sum(Q)                         replicate_tail.py lines 62-74  *)
(***************************************************************************)
\* line 73: S += 1.0 / (q * ph); the int q * ph is converted to the float
\* nearest it
FloatAccumulate(S, q, ph) ==
    FloatAdd(S, FloatDiv(One, FloatOfDigits(FALSE, DigitsOfInt(q * ph))))

RECURSIVE FloatSumLoop(_, _, _, _)
\* lines 71-73: the loop of sieve_phi_sum from q on
FloatSumLoop(ph, q, QQ, S) ==
    IF q > QQ THEN S
    ELSE Bind(FloatAccumulate(S, q, ph[q]),
              LAMBDA next : FloatSumLoop(ph, q + 1, QQ, next))

\* sieve_phi_sum(Q): the pair ([0, 1], 0.0) for Q < 1 (lines 63-64), else the
\* table of lines 65-69 and the float sum
sieve_phi_sum(QQ) ==
    IF QQ < 1
      THEN Return([phi |-> (0 :> 0) @@ (1 :> 1), S |-> FloatZero(FALSE)])
    ELSE Bind(SieveOuter(SieveTable(QQ), 2, QQ), LAMBDA ph :
              Return([phi |-> ph,
                      S |-> FloatSumLoop(ph, 2, QQ, FloatZero(FALSE))]))

(***************************************************************************)
(* compute_tail_margins                    replicate_tail.py lines 105-154 *)
(***************************************************************************)
\* lines 98-99 (and per_q_envelope.py line 14): N * L + N
E_trivial(N, L) == FloatAdd(FloatMul(N, L), N)

\* lines 101-102 (and per_q_envelope.py line 15): N / (160.0 * L), for
\* L nonzero
E_uniform(N, L) == FloatDiv(N, FloatMul(OneSixty, L))

\* lines 116-118: the three exact sums around Q
TailSumsFraction(QQ) ==
    <<IF QQ > 1 THEN harmonic_sum_fraction(QQ - 1).value ELSE Frac(0, 1),
      harmonic_sum_fraction(QQ).value,
      harmonic_sum_fraction(QQ + 1).value>>

\* lines 123-127: the three decimal sums around Q, inside localcontext()
\* with ctx.prec = prec (harmonic_sum_decimal assigns the precision again)
TailSumsDecimal(QQ, prec) ==
    Bind(IF QQ > 1 THEN harmonic_sum_decimal(QQ - 1, prec, prec)
         ELSE [ctx |-> prec, ret |-> Return(DecInt(0))], LAMBDA a :
    Bind(harmonic_sum_decimal(QQ, prec, a.ctx), LAMBDA b :
    Bind(harmonic_sum_decimal(QQ + 1, prec, b.ctx), LAMBDA c :
         <<a.ret.value, b.ret.value, c.ret.value>>)))

\* lines 119 and 128: S_Qm1 < S_Q < S_Qp1
StrictlyIncreasing(method, t) ==
    IF method = "fraction"
      THEN FracLess(t[1], t[2]) /\ FracLess(t[2], t[3])
      ELSE DecLess(t[1], t[2]) /\ DecLess(t[2], t[3])

\* lines 121 and 130: S_harm = float(S_Q)
TailSumFloat(method, S) ==
    IF method = "fraction" THEN FloatOfFraction(S) ELSE FloatOfDecimal(S)

\* line 140: share = (S_floor / (8.0 * K)) * N_float / (L ** 2), for L
\* nonzero; ZeroDivisionError when 8.0 * K is a zero
TailShare(K, S_floor, N, L) ==
    Bind(FloatMul(Eight, K), LAMBDA K8 :
        IF IsZero(K8) THEN Raise("ZeroDivisionError")
        ELSE Return(FloatDiv(FloatMul(FloatDiv(S_floor, K8), N),
                             FloatSquare(L))))

\* lines 140 and 152-153: a float division raises ZeroDivisionError for a
\* zero divisor, whatever the dividend: in 8.0 * K of line 140, and in share
\* of lines 152-153 (a product or quotient that underflows is a zero too)
TailDivisionByZero(K, S_floor, N, L) ==
    Bind(TailShare(K, S_floor, N, L), LAMBDA share :
         share.status # "ok" \/ IsZero(share.value))

\* lines 132-154: the floats of the record, for N_float of line 132 with
\* math.log(N_float) nonzero, Q and S_harm
TailRecord(K, S_floor, C_W, method, prec, N, QQ, S_harm) ==
    Bind(<<MathLog(N), PowSixTenths(N)>>, LAMBDA LR :
    Bind(<<FloatDiv(C_W, LR[2]), E_trivial(N, LR[1]), E_uniform(N, LR[1])>>,
         LAMBDA E :
    Bind(<<FloatMul(FloatMul(E[1], E[2]), S_harm),
           FloatMul(FloatMul(E[1], E[3]), S_harm),
           TailShare(K, S_floor, N, LR[1])>>, LAMBDA v :
        IF v[3].status # "ok" \/ IsZero(v[3].value)
          THEN Raise("ZeroDivisionError")
          ELSE Return([constants |-> [K |-> K, S_floor |-> S_floor, C_W |-> C_W,
                                      method |-> method, prec |-> prec],
                       N |-> N,
                       logN |-> LR[1],
                       Q |-> QQ,
                       R |-> LR[2],
                       sum_q |-> S_harm,
                       EMA_trivial |-> v[1],
                       EMA_uniform |-> v[2],
                       share |-> v[3].value,
                       ratio_trivial |-> FloatDiv(v[1], v[3].value),
                       ratio_uniform |-> FloatDiv(v[2], v[3].value)]))))

\* compute_tail_margins(N_int, K, S_floor, C_W, method=, prec=) called under
\* the context precision ctx, for an int N_int and floats K, S_floor, C_W.
\* locals records the three sums compared.  localcontext() restores the
\* caller's context on exit, so the call leaves ctx as it found it.  (Where
\* the check of lines 119 and 128 passes Q >= 2, so N_int >= 32 and
\* math.log(N_float) > 3.)
compute_tail_margins(NN, K, S_floor, C_W, method, prec, ctx) ==
    IF NN <= 0
      THEN [ctx |-> ctx, ret |-> Raise("ValueError"), locals |-> NoLocals]
    ELSE Bind(int_nth_root_floor(NN, RootOfQ).value, LAMBDA QQ :
         Bind(IF method = "fraction" THEN TailSumsFraction(QQ)
              ELSE TailSumsDecimal(QQ, prec), LAMBDA t :
             [ctx |-> ctx,
              ret |-> IF ~StrictlyIncreasing(method, t)
                        THEN Raise("AssertionError")
                      ELSE TailRecord(K, S_floor, C_W, method, prec,
                                      FloatOfDigits(FALSE, DigitsOfInt(NN)), QQ,
                                      TailSumFloat(method, t[2])),
              locals |-> [Q |-> QQ, S_Qm1 |-> t[1], S_Q |-> t[2], S_Qp1 |-> t[3]]]))

(***************************************************************************)
(* strict_diagnostics                      replicate_tail.py lines 156-185 *)
(***************************************************************************)
\* lines 163-169: the sums at Q-kmax .. Q+kmax at precision prec (q < 1
\* skipped); each call assigns the context precision
DiagSums(QQ, prec, kmax, ctx) ==
    [q \in {x \in QQ - kmax .. QQ + kmax : x >= 1} |->
        harmonic_sum_decimal(q, prec, ctx).ret.value]

\* strict_diagnostics(N_int, base_prec, hi_prec, kmax) under the context
\* precision ctx.  The last harmonic_sum_decimal call leaves the context at
\* hi_prec, and lines 173 and 180-183 compute at that precision.  str() of a
\* Decimal is carried as the Decimal itself.
strict_diagnostics(NN, base_prec, hi_prec, kmax, ctx) ==
    IF NN <= 0
      THEN [ctx |-> ctx, ret |-> Raise("ValueError")]
    ELSE Bind(int_nth_root_floor(NN, RootOfQ).value, LAMBDA QQ :
         Bind(harmonic_sum_decimal(QQ, base_prec, ctx).ctx, LAMBDA ctx1 :
         Bind(harmonic_sum_decimal(QQ, hi_prec, ctx1).ctx, LAMBDA now :
         Bind(DiagSums(QQ, base_prec, kmax, ctx), LAMBDA base :
         Bind(DiagSums(QQ, hi_prec, kmax, ctx1), LAMBDA high :
         Bind(harmonic_sum_fraction(QQ).value, LAMBDA frac :
             [ctx |-> now,
              ret |-> Return(
                  [Q |-> QQ,
                   S_decimal_base |-> base[QQ],
                   S_decimal_hi |-> high[QQ],
                   S_fraction_Q |-> frac,
                   S_decimal_minus_fraction_abs |->
                       DecAbs(DecSub(high[QQ],
                                     DecDiv(DecInt(frac[1]), DecInt(frac[2]), now),
                                     now),
                              now),
                   monotone_deltas_hi_prec |->
                       [d \in 1 .. kmax |->
                           DecSub(high[QQ + d], high[QQ + d - 1], now)]])]))))))

(***************************************************************************)
(* tests/test_replication.py lines 43-50: the three sums at one precision  *)
(* (the test assigns the context precision itself, then calls).            *)
(***************************************************************************)
test_harmonic_sum_monotone_decimal(QQ, prec, ctx) ==
    Bind(harmonic_sum_decimal(QQ - 1, prec, prec), LAMBDA a :
    Bind(harmonic_sum_decimal(QQ, prec, a.ctx), LAMBDA b :
    Bind(harmonic_sum_decimal(QQ + 1, prec, b.ctx), LAMBDA c :
    Bind(<<a.ret.value, b.ret.value, c.ret.value>>, LAMBDA t :
        [ctx |-> c.ctx,
         ret |-> [status |-> IF StrictlyIncreasing("decimal", t)
                               THEN "ok" ELSE "AssertionError",
                  value |-> None],
         locals |-> [Q |-> QQ, S_Qm1 |-> t[1], S_Q |-> t[2], S_Qp1 |-> t[3]]]))))

RootIdle ==
    /\ n = 0 /\ k = 1 /\ lo = 0 /\ hi = 0 /\ rpc = "idle" /\ rres = None

SieveIdle ==
    /\ Q = 0 /\ phi = <<>> /\ p = 0 /\ sk = 0 /\ spc = "idle"
    /\ applied = <<>> /\ exact = TRUE

CallIdle ==
    /\ ctxprec = 1 /\ ipc = "idle" /\ last = NoCall /\ first = Untracked

MainIdle ==
    /\ argv = None /\ cfgfile = None /\ mpc = "idle" /\ defaults = None
    /\ N_input = None /\ N_int = None /\ result = None
    /\ stdout = <<>> /\ stderr = <<>> /\ status = None

PerQIdle ==
    /\ ns = None /\ rows = <<>> /\ qq = 0 /\ ema = None /\ missing = 0
    /\ Eqs = <<>> /\ ppc = "idle" /\ printed = None

InitSieve ==
    /\ RootIdle
    /\ CallIdle
    /\ MainIdle
    /\ PerQIdle
    /\ Q \in -2 .. MaxSieveQ
    /\ phi = <<>>
    /\ p = 0
    /\ sk = 0
    /\ spc = "start"
    /\ applied = <<>>
    /\ exact = TRUE

\* lines 53-55: reject Q < 0, else build the table
SieveEnter ==
    /\ spc = "start"
    /\ IF Q < 0
         THEN /\ spc' = "ValueError"
              /\ UNCHANGED <<phi, p, applied>>
         ELSE /\ spc' = "outer"
              /\ phi' = SieveTable(Q)
              /\ p' = 2
              /\ applied' = [i \in 0 .. Q |-> <<>>]
    /\ UNCHANGED <<Q, sk, exact>>
    /\ UNCHANGED <<rootVars, callVars, mainVars, perqVars>>

\* lines 56-57: the next candidate p, or the return of the table
SieveNextP ==
    /\ spc = "outer"
    /\ IF p > Q
         THEN /\ spc' = "done"
              /\ UNCHANGED <<p, sk>>
         ELSE IF SieveUntouched(phi, p)
           THEN /\ spc' = "inner"
                /\ sk' = SieveInnerStart(p)
                /\ UNCHANGED p
           ELSE /\ p' = p + 1
                /\ UNCHANGED <<spc, sk>>
    /\ UNCHANGED <<Q, phi, applied, exact>>
    /\ UNCHANGED <<rootVars, callVars, mainVars, perqVars>>

\* lines 58-59: one update of the inner loop, or its exit
SieveMultiple ==
    /\ spc = "inner"
    /\ IF sk > Q
         THEN /\ spc' = "outer"
              /\ p' = p + 1
              /\ UNCHANGED <<phi, sk, applied, exact>>
         ELSE /\ phi' = SieveUpdate(phi, sk, p)
              /\ sk' = sk + p
              /\ applied' = [applied EXCEPT ![sk] = Append(@, p)]
              /\ exact' = (exact /\ phi[sk] % p = 0)
              /\ UNCHANGED <<spc, p>>
    /\ UNCHANGED Q
    /\ UNCHANGED <<rootVars, callVars, mainVars, perqVars>>

NextSieve == SieveEnter \/ SieveNextP \/ SieveMultiple

SpecSieve == InitSieve /\ [][NextSieve]_vars

(***************************************************************************)
(* The calling process.  A call runs to completion in one step (the code   *)
(* is synchronous); the caller then takes the outcome and is ready again.  *)
(***************************************************************************)
\* the precisions tried: the small ones, where rounding shows, and the
\* defaults of the code
SmallPrecs == 1 .. MaxPrec
Precs == SmallPrecs \cup {DefaultPrec, HiPrec}
Methods == {"decimal", "fraction"}

\* the built-in K, S_floor and C_W of main (lines 234-236): the floats 10.0,
\* 1.2 and 2.0
DefaultK == FloatOfLiteral(FALSE, <<1, 0, 0>>, 0 - 1)
DefaultS_floor == FloatOfLiteral(FALSE, <<1, 2>>, 0 - 1)
DefaultC_W == FloatOfLiteral(FALSE, <<2, 0>>, 0 - 1)

\* arguments tried: the edges of every Q = floor(N^(1/5)) up to MaxQ
SumQs == -2 .. MaxQ + 1
EdgeNs == {Pow(q, RootOfQ) - 1 : q \in 2 .. MaxQ} \cup {Pow(q, RootOfQ) : q \in 2 .. MaxQ}
TailNs == (-1 .. 2) \cup EdgeNs \cup {33}
TailModes ==
    {<<"fraction", DefaultPrec>>}
        \cup {<<"decimal", prec>> : prec \in SmallPrecs \cup {DefaultPrec}}
DiagNs == {21} \cup {Pow(q, RootOfQ) : q \in {2, MaxQ - 1, MaxQ}}
DiagPrecs == {<<1, 2>>, <<MaxPrec, 1>>, <<DefaultPrec, HiPrec>>}

InitCalls ==
    /\ RootIdle
    /\ SieveIdle
    /\ MainIdle
    /\ PerQIdle
    /\ ctxprec \in Precs
    /\ ipc = "ready"
    /\ last = NoCall
    /\ first = Untracked

InitIdem ==
    /\ RootIdle
    /\ SieveIdle
    /\ MainIdle
    /\ PerQIdle
    /\ ctxprec \in SmallPrecs
    /\ ipc = "ready"
    /\ last = NoCall
    /\ first = NoCall

\* a call made under the context precision `under` and returned (or raised):
\* the outcome, and the context precision it leaves
Invoke(fn, args, under, out) ==
    /\ ipc = "ready"
    /\ ipc' = "returned"
    /\ \E o \in {out} :
        /\ last' = [fn |-> fn, args |-> args, under |-> under, ret |-> o.ret,
                    locals |-> IF "locals" \in DOMAIN o THEN o.locals ELSE NoLocals]
        /\ ctxprec' = IF "ctx" \in DOMAIN o THEN o.ctx ELSE ctxprec
    /\ first' = IF first = NoCall THEN last' ELSE first
    /\ UNCHANGED <<rootVars, sieveVars, mainVars, perqVars>>

Call_int_nth_root_floor ==
    \E a \in (-2 .. 40) \X (-1 .. 3) :
        Invoke("int_nth_root_floor", a, ctxprec, [ret |-> int_nth_root_floor(a[1], a[2])])

Call_sieve_phi ==
    \E q \in SumQs : Invoke("sieve_phi", <<q>>, ctxprec, [ret |-> sieve_phi(q)])

Call_sieve_phi_sum ==
    \E q \in SumQs : Invoke("sieve_phi_sum", <<q>>, ctxprec, [ret |-> sieve_phi_sum(q)])

Call_harmonic_sum_fraction ==
    \E q \in SumQs :
        Invoke("harmonic_sum_fraction", <<q>>, ctxprec, [ret |-> harmonic_sum_fraction(q)])

Call_harmonic_sum_decimal(Qs, Ps) ==
    \E q \in Qs, prec \in Ps :
        Invoke("harmonic_sum_decimal", <<q, prec>>, ctxprec,
               harmonic_sum_decimal(q, prec, ctxprec))

Call_compute_tail_margins(Ns, Modes) ==
    \E N \in Ns, mode \in Modes :
        Invoke("compute_tail_margins", <<N, mode[1], mode[2]>>, ctxprec,
               compute_tail_margins(N, DefaultK, DefaultS_floor, DefaultC_W,
                                    mode[1], mode[2], ctxprec))

Call_strict_diagnostics(Ns, Ps) ==
    \E N \in Ns, pr \in Ps :
        Invoke("strict_diagnostics", <<N, pr[1], pr[2], KMax>>, ctxprec,
               strict_diagnostics(N, pr[1], pr[2], KMax, ctxprec))

Call_test_monotone(Qs, Ps) ==
    \E q \in Qs, prec \in Ps :
        Invoke("test_harmonic_sum_monotone_decimal", <<q, prec>>, ctxprec,
               test_harmonic_sum_monotone_decimal(q, prec, ctxprec))

\* the caller takes the outcome
Continue ==
    /\ ipc = "returned"
    /\ ipc' = "ready"
    /\ last' = NoCall
    /\ UNCHANGED <<ctxprec, first, rootVars, sieveVars, mainVars, perqVars>>

Next ==
    \/ Call_int_nth_root_floor
    \/ Call_sieve_phi
    \/ Call_sieve_phi_sum
    \/ Call_harmonic_sum_fraction
    \/ Call_harmonic_sum_decimal(SumQs, Precs)
    \/ Call_compute_tail_margins(TailNs, TailModes)
    \/ Call_strict_diagnostics(DiagNs, DiagPrecs)
    \/ Call_test_monotone(1 .. MaxQ, SmallPrecs)
    \/ Continue

Spec == InitCalls /\ [][Next]_vars

NextIdem ==
    \/ Call_harmonic_sum_decimal({MaxQ}, Precs)
    \/ Call_compute_tail_margins({1, Pow(MaxQ, RootOfQ)}, TailModes)
    \/ Call_strict_diagnostics({Pow(MaxQ, RootOfQ)}, {<<1, 2>>, <<MaxPrec, 1>>})
    \/ Call_test_monotone({2}, SmallPrecs)
    \/ Continue

SpecIdem == InitIdem /\ [][NextIdem]_vars

(***************************************************************************)
(* Claims about the calls.                                                 *)
(***************************************************************************)
Returned(fn) == ipc = "returned" /\ last.fn = fn

\* the digits a followed by j zeros: a * 10^j
Scaled(a, j) == IF a = <<>> THEN <<>> ELSE a \o Zeros(j)

\* |a - b| for the digits of two ints
Distance(a, b) == IF MagLess(a, b) THEN SubDigits(b, a) ELSE SubDigits(a, b)

\* |dec - frac| < 10^-places in exact arithmetic, for a Decimal dec >= 0 and
\* a fraction frac >= 0: with frac = n/d and dec = c * 10^e, j = max(0, -e),
\* the test is |c * d * 10^(e+j) - n * 10^j| * 10^places < d * 10^j
AgreeWithin(dec, frac, places) ==
    LET j == IF dec.e < 0 THEN 0 - dec.e ELSE 0
        d == DigitsOfInt(frac[2])
    IN  Bind(Distance(MulDigits(Scaled(StripZeros(dec.c), dec.e + j), d),
                      Scaled(DigitsOfInt(frac[1]), j)), LAMBDA diff :
             MagLess(Scaled(diff, places), Scaled(d, j)))

\* the step that adds the term of q is resolved at precision prec: the term
\* 1/(q*phi(q)) exceeds one unit in the last place of a sum below 10
Resolved(q, prec) ==
    MagLess(DigitsOfInt(q * Totient(q)), <<1>> \o Zeros(prec - 1))

\* the call compared three sums S(Q-1), S(Q), S(Q+1) for some Q >= 2
ComparedSums ==
    /\ ipc = "returned"
    /\ last.fn \in {"compute_tail_margins", "test_harmonic_sum_monotone_decimal"}
    /\ last.locals.Q >= 2

SumsMethod ==
    IF last.fn = "compute_tail_margins" THEN last.args[2] ELSE "decimal"

SumsPrec == IF last.fn = "compute_tail_margins" THEN last.args[3] ELSE last.args[2]

SumsTriple == <<last.locals.S_Qm1, last.locals.S_Q, last.locals.S_Qp1>>

\* sieve_phi_sum returned the float sum S(Q) for some Q >= 2
FloatSummed == Returned("sieve_phi_sum") /\ last.args[1] >= 2

\* the float sums S(Q-1), S(Q), S(Q+1) of sieve_phi_sum around the Q of
\* the call
FloatTriple ==
    <<sieve_phi_sum(last.args[1] - 1).value.S,
      last.ret.value.S,
      sieve_phi_sum(last.args[1] + 1).value.S>>

C4_TailReturnsRecord ==
    (/\ Returned("compute_tail_margins")
     /\ last.args[1] >= 1
     /\ last.args[2] = "fraction" \/ last.args[3] = DefaultPrec)
    => last.ret.status = "ok"

\* C5 as stated: int_nth_root_floor raises ValueError for n < 0 or k <= 0,
\* and sieve_phi, sieve_phi_sum, harmonic_sum_decimal and
\* harmonic_sum_fraction raise ValueError for Q < 0.
C5_InvalidArgumentsRejected ==
    /\ (Returned("int_nth_root_floor") /\ (last.args[1] < 0 \/ last.args[2] <= 0))
        => last.ret.status = "ValueError"
    /\ (/\ ipc = "returned"
        /\ last.fn \in {"sieve_phi", "sieve_phi_sum", "harmonic_sum_decimal",
                        "harmonic_sum_fraction"}
        /\ last.args[1] < 0)
        => last.ret.status = "ValueError"

\* C6: a call of harmonic_sum_decimal or compute_tail_margins returns what
\* the first call with the same arguments returned, whatever calls were made
\* in between and whatever context precision they left.
C6_RepeatedCallSameValue ==
    (/\ ipc = "returned"
     /\ last.fn \in {"harmonic_sum_decimal", "compute_tail_margins"}
     /\ first.fn = last.fn
     /\ first.args = last.args)
    => /\ last.ret.status = first.ret.status
       /\ last.ret.status = "ok" => last.ret.value = first.ret.value

\* harmonic_sum_decimal(11, 3) = 1.03 again, called first under the context
\* precision 1 and then under the precision 120 an earlier call left
C6_Witness ==
    /\ Returned("harmonic_sum_decimal")
    /\ first.fn = "harmonic_sum_decimal"
    /\ first.args = last.args
    /\ last.args[1] = 11
    /\ last.args[2] = 3
    /\ first.under = 1
    /\ last.under = HiPrec
    /\ last.ret.value = Dec(0, <<1, 0, 3>>, 0 - 2)

\* the tolerance asked of the decimal sum at precision 120: 1e-20
Tolerance == Dec(0, <<1>>, 0 - 20)

\* C9: |harmonic_sum_decimal(Q, 120) - harmonic_sum_fraction(Q)| < 1e-20
\* for every Q >= 0, also for the two sums strict_diagnostics reports at
\* hi_prec = 120 and the difference it prints; both sums are exactly 0 for
\* Q = 0 and Q = 1.
C9_DecimalAgreesWithFraction ==
    /\ (Returned("harmonic_sum_decimal") /\ last.args[1] >= 0
            /\ last.args[2] = HiPrec) =>
          AgreeWithin(last.ret.value, harmonic_sum_fraction(last.args[1]).value,
                      0 - Tolerance.e)
    /\ (Returned("harmonic_sum_decimal") /\ last.args[1] \in {0, 1}) =>
          last.ret.value = Dec(0, <<0>>, 0)
    /\ (Returned("harmonic_sum_fraction") /\ last.args[1] \in {0, 1}) =>
          last.ret.value = Frac(0, 1)
    /\ (Returned("strict_diagnostics") /\ last.ret.status = "ok"
            /\ last.args[3] = HiPrec) =>
          /\ AgreeWithin(last.ret.value.S_decimal_hi, last.ret.value.S_fraction_Q,
                         0 - Tolerance.e)
          /\ DecLess(last.ret.value.S_decimal_minus_fraction_abs, Tolerance)

\* harmonic_sum_decimal(12, 120) = 1.05350228475228475..., 120 digits, for
\* the exact sum 350437/332640
C9_Witness ==
    /\ Returned("harmonic_sum_decimal")
    /\ last.args = <<12, HiPrec>>
    /\ Len(last.ret.value.c) = 120
    /\ last.ret.value.e = 0 - 119
    /\ SubSeq(last.ret.value.c, 1, 12) = <<1, 0, 5, 3, 5, 0, 2, 2, 8, 4, 7, 5>>
    /\ harmonic_sum_fraction(12).value = <<350437, 332640>>

\* C2: for Q >= 0 the table returned has Q+1 entries, entry 0 is 0, entry m
\* is the totient of m for m in 1..Q; every update's division is exact, and
\* index m is updated once for each distinct prime dividing m and no more.
C2_SieveTotient ==
    /\ exact
    /\ spc = "done" =>
        /\ DOMAIN phi = 0 .. Q
        /\ phi[0] = 0
        /\ \A m \in 1 .. Q : phi[m] = Totient(m)
        /\ \A m \in 1 .. Q :
              /\ Len(applied[m]) = Cardinality(Range(applied[m]))
              /\ Range(applied[m]) = PrimeDivisors(m)
        /\ phi = SieveOuter(SieveTable(Q), 2, Q)

C2_Witness == spc = "done" /\ Q = 30 /\ phi[30] = 8 /\ Len(applied[30]) = 3

InitRoot ==
    /\ SieveIdle
    /\ CallIdle
    /\ MainIdle
    /\ PerQIdle
    /\ n \in -2 .. MaxN
    /\ k \in -1 .. MaxK
    /\ lo = 0
    /\ hi = 0
    /\ rpc = "start"
    /\ rres = None

\* lines 37-41: reject, return n for n < 2, or enter the doubling loop
RootEnter ==
    /\ rpc = "start"
    /\ IF RootArgsInvalid(n, k)
         THEN /\ rpc' = "ValueError"
              /\ UNCHANGED <<lo, hi, rres>>
         ELSE IF n < 2
           THEN /\ rpc' = "done"
                /\ rres' = n
                /\ UNCHANGED <<lo, hi>>
           ELSE /\ rpc' = "double"
                /\ lo' = 0
                /\ hi' = 1
                /\ UNCHANGED rres
    /\ UNCHANGED <<n, k>>
    /\ UNCHANGED <<sieveVars, callVars, mainVars, perqVars>>

\* lines 42-43: one iteration of the doubling loop, or its exit
RootDouble ==
    /\ rpc = "double"
    /\ IF DoubleCond(hi, n, k)
         THEN /\ hi' = DoubleStep(hi)
              /\ UNCHANGED rpc
         ELSE /\ rpc' = "bisect"
              /\ UNCHANGED hi
    /\ UNCHANGED <<n, k, lo, rres>>
    /\ UNCHANGED <<sieveVars, callVars, mainVars, perqVars>>

\* lines 44-50: one iteration of the bisection loop, or the return of lo
RootBisect ==
    /\ rpc = "bisect"
    /\ IF BisectCond(lo, hi)
         THEN /\ lo' = BisectStep(lo, hi, n, k)[1]
              /\ hi' = BisectStep(lo, hi, n, k)[2]
              /\ UNCHANGED <<rpc, rres>>
         ELSE /\ rpc' = "done"
              /\ rres' = lo
              /\ UNCHANGED <<lo, hi>>
    /\ UNCHANGED <<n, k>>
    /\ UNCHANGED <<sieveVars, callVars, mainVars, perqVars>>

NextRoot == RootEnter \/ RootDouble \/ RootBisect

SpecRoot == InitRoot /\ [][NextRoot]_vars /\ WF_vars(NextRoot)

RootLoopInv ==
    rpc = "bisect" => Pow(lo, k) <= n /\ n < Pow(hi, k) /\ lo < hi

RootResult ==
    rpc = "done" =>
        /\ rres >= 0
        /\ Pow(rres, k) <= n
        /\ n < Pow(rres + 1, k)
        /\ (n = 0 => rres = 0)
        /\ (n = 1 => rres = 1)

\* C1: for n >= 0 and k >= 1 both loops terminate, the bisection keeps
\* lo^k <= n < hi^k, and the value returned is the r >= 0 with
\* r^k <= n < (r+1)^k (0 for n = 0, 1 for n = 1).
C1_RootFloor ==
    /\ [](RootLoopInv /\ RootResult)
    /\ (~RootArgsInvalid(n, k) => <>(rpc = "done"))

C1_Witness == rpc = "done" /\ n = 243 /\ k = 5 /\ rres = 3

(***************************************************************************)
(* main                                   replicate_tail.py lines 187-287  *)
(*                                                                         *)
(* A string is the sequence of its characters.  A Python int is carried as *)
(* a sign and its decimal digits, most significant first, so that values   *)
(* near 4e18 are exact.                                                    *)
(***************************************************************************)
DigitChars == <<"0", "1", "2", "3", "4", "5", "6", "7", "8", "9">>

\* A character is written as the one-character string it is when it is
\* printable ASCII, a tab, a newline, a form feed or a carriage return, and
\* as the string "U+XXXX" of its code point otherwise.
\*
\* The characters outside ASCII that str.isdecimal() accepts (category Nd),
\* in code point order: runs of ten, each from its zero to its nine
\* (Unicode 14.0, the unicodedata of the CPython 3.11 that runs the script).
UnicodeDecimals ==
    << "U+0660", "U+0661", "U+0662", "U+0663", "U+0664", "U+0665", "U+0666",
       "U+0667", "U+0668", "U+0669", "U+06F0", "U+06F1", "U+06F2", "U+06F3",
       "U+06F4", "U+06F5", "U+06F6", "U+06F7", "U+06F8", "U+06F9", "U+07C0",
       "U+07C1", "U+07C2", "U+07C3", "U+07C4", "U+07C5", "U+07C6", "U+07C7",
       "U+07C8", "U+07C9", "U+0966", "U+0967", "U+0968", "U+0969", "U+096A",
       "U+096B", "U+096C", "U+096D", "U+096E", "U+096F", "U+09E6", "U+09E7",
       "U+09E8", "U+09E9", "U+09EA", "U+09EB", "U+09EC", "U+09ED", "U+09EE",
       "U+09EF", "U+0A66", "U+0A67", "U+0A68", "U+0A69", "U+0A6A", "U+0A6B",
       "U+0A6C", "U+0A6D", "U+0A6E", "U+0A6F", "U+0AE6", "U+0AE7", "U+0AE8",
       "U+0AE9", "U+0AEA", "U+0AEB", "U+0AEC", "U+0AED", "U+0AEE", "U+0AEF",
       "U+0B66", "U+0B67", "U+0B68", "U+0B69", "U+0B6A", "U+0B6B", "U+0B6C",
       "U+0B6D", "U+0B6E", "U+0B6F", "U+0BE6", "U+0BE7", "U+0BE8", "U+0BE9",
       "U+0BEA", "U+0BEB", "U+0BEC", "U+0BED", "U+0BEE", "U+0BEF", "U+0C66",
       "U+0C67", "U+0C68", "U+0C69", "U+0C6A", "U+0C6B", "U+0C6C", "U+0C6D",
       "U+0C6E", "U+0C6F", "U+0CE6", "U+0CE7", "U+0CE8", "U+0CE9", "U+0CEA",
       "U+0CEB", "U+0CEC", "U+0CED", "U+0CEE", "U+0CEF", "U+0D66", "U+0D67",
       "U+0D68", "U+0D69", "U+0D6A", "U+0D6B", "U+0D6C", "U+0D6D", "U+0D6E",
       "U+0D6F", "U+0DE6", "U+0DE7", "U+0DE8", "U+0DE9", "U+0DEA", "U+0DEB",
       "U+0DEC", "U+0DED", "U+0DEE", "U+0DEF", "U+0E50", "U+0E51", "U+0E52",
       "U+0E53", "U+0E54", "U+0E55", "U+0E56", "U+0E57", "U+0E58", "U+0E59",
       "U+0ED0", "U+0ED1", "U+0ED2", "U+0ED3", "U+0ED4", "U+0ED5", "U+0ED6",
       "U+0ED7", "U+0ED8", "U+0ED9", "U+0F20", "U+0F21", "U+0F22", "U+0F23",
       "U+0F24", "U+0F25", "U+0F26", "U+0F27", "U+0F28", "U+0F29", "U+1040",
       "U+1041", "U+1042", "U+1043", "U+1044", "U+1045", "U+1046", "U+1047",
       "U+1048", "U+1049", "U+1090", "U+1091", "U+1092", "U+1093", "U+1094",
       "U+1095", "U+1096", "U+1097", "U+1098", "U+1099", "U+17E0", "U+17E1",
       "U+17E2", "U+17E3", "U+17E4", "U+17E5", "U+17E6", "U+17E7", "U+17E8",
       "U+17E9", "U+1810", "U+1811", "U+1812", "U+1813", "U+1814", "U+1815",
       "U+1816", "U+1817", "U+1818", "U+1819", "U+1946", "U+1947", "U+1948",
       "U+1949", "U+194A", "U+194B", "U+194C", "U+194D", "U+194E", "U+194F",
       "U+19D0", "U+19D1", "U+19D2", "U+19D3", "U+19D4", "U+19D5", "U+19D6",
       "U+19D7", "U+19D8", "U+19D9", "U+1A80", "U+1A81", "U+1A82", "U+1A83",
       "U+1A84", "U+1A85", "U+1A86", "U+1A87", "U+1A88", "U+1A89", "U+1A90",
       "U+1A91", "U+1A92", "U+1A93", "U+1A94", "U+1A95", "U+1A96", "U+1A97",
       "U+1A98", "U+1A99", "U+1B50", "U+1B51", "U+1B52", "U+1B53", "U+1B54",
       "U+1B55", "U+1B56", "U+1B57", "U+1B58", "U+1B59", "U+1BB0", "U+1BB1",
       "U+1BB2", "U+1BB3", "U+1BB4", "U+1BB5", "U+1BB6", "U+1BB7", "U+1BB8",
       "U+1BB9", "U+1C40", "U+1C41", "U+1C42", "U+1C43", "U+1C44", "U+1C45",
       "U+1C46", "U+1C47", "U+1C48", "U+1C49", "U+1C50", "U+1C51", "U+1C52",
       "U+1C53", "U+1C54", "U+1C55", "U+1C56", "U+1C57", "U+1C58", "U+1C59",
       "U+A620", "U+A621", "U+A622", "U+A623", "U+A624", "U+A625", "U+A626",
       "U+A627", "U+A628", "U+A629", "U+A8D0", "U+A8D1", "U+A8D2", "U+A8D3",
       "U+A8D4", "U+A8D5", "U+A8D6", "U+A8D7", "U+A8D8", "U+A8D9", "U+A900",
       "U+A901", "U+A902", "U+A903", "U+A904", "U+A905", "U+A906", "U+A907",
       "U+A908", "U+A909", "U+A9D0", "U+A9D1", "U+A9D2", "U+A9D3", "U+A9D4",
       "U+A9D5", "U+A9D6", "U+A9D7", "U+A9D8", "U+A9D9", "U+A9F0", "U+A9F1",
       "U+A9F2", "U+A9F3", "U+A9F4", "U+A9F5", "U+A9F6", "U+A9F7", "U+A9F8",
       "U+A9F9", "U+AA50", "U+AA51", "U+AA52", "U+AA53", "U+AA54", "U+AA55",
       "U+AA56", "U+AA57", "U+AA58", "U+AA59", "U+ABF0", "U+ABF1", "U+ABF2",
       "U+ABF3", "U+ABF4", "U+ABF5", "U+ABF6", "U+ABF7", "U+ABF8", "U+ABF9",
       "U+FF10", "U+FF11", "U+FF12", "U+FF13", "U+FF14", "U+FF15", "U+FF16",
       "U+FF17", "U+FF18", "U+FF19", "U+104A0", "U+104A1", "U+104A2",
       "U+104A3", "U+104A4", "U+104A5", "U+104A6", "U+104A7", "U+104A8",
       "U+104A9", "U+10D30", "U+10D31", "U+10D32", "U+10D33", "U+10D34",
       "U+10D35", "U+10D36", "U+10D37", "U+10D38", "U+10D39", "U+11066",
       "U+11067", "U+11068", "U+11069", "U+1106A", "U+1106B", "U+1106C",
       "U+1106D", "U+1106E", "U+1106F", "U+110F0", "U+110F1", "U+110F2",
       "U+110F3", "U+110F4", "U+110F5", "U+110F6", "U+110F7", "U+110F8",
       "U+110F9", "U+11136", "U+11137", "U+11138", "U+11139", "U+1113A",
       "U+1113B", "U+1113C", "U+1113D", "U+1113E", "U+1113F", "U+111D0",
       "U+111D1", "U+111D2", "U+111D3", "U+111D4", "U+111D5", "U+111D6",
       "U+111D7", "U+111D8", "U+111D9", "U+112F0", "U+112F1", "U+112F2",
       "U+112F3", "U+112F4", "U+112F5", "U+112F6", "U+112F7", "U+112F8",
       "U+112F9", "U+11450", "U+11451", "U+11452", "U+11453", "U+11454",
       "U+11455", "U+11456", "U+11457", "U+11458", "U+11459", "U+114D0",
       "U+114D1", "U+114D2", "U+114D3", "U+114D4", "U+114D5", "U+114D6",
       "U+114D7", "U+114D8", "U+114D9", "U+11650", "U+11651", "U+11652",
       "U+11653", "U+11654", "U+11655", "U+11656", "U+11657", "U+11658",
       "U+11659", "U+116C0", "U+116C1", "U+116C2", "U+116C3", "U+116C4",
       "U+116C5", "U+116C6", "U+116C7", "U+116C8", "U+116C9", "U+11730",
       "U+11731", "U+11732", "U+11733", "U+11734", "U+11735", "U+11736",
       "U+11737", "U+11738", "U+11739", "U+118E0", "U+118E1", "U+118E2",
       "U+118E3", "U+118E4", "U+118E5", "U+118E6", "U+118E7", "U+118E8",
       "U+118E9", "U+11950", "U+11951", "U+11952", "U+11953", "U+11954",
       "U+11955", "U+11956", "U+11957", "U+11958", "U+11959", "U+11C50",
       "U+11C51", "U+11C52", "U+11C53", "U+11C54", "U+11C55", "U+11C56",
       "U+11C57", "U+11C58", "U+11C59", "U+11D50", "U+11D51", "U+11D52",
       "U+11D53", "U+11D54", "U+11D55", "U+11D56", "U+11D57", "U+11D58",
       "U+11D59", "U+11DA0", "U+11DA1", "U+11DA2", "U+11DA3", "U+11DA4",
       "U+11DA5", "U+11DA6", "U+11DA7", "U+11DA8", "U+11DA9", "U+16A60",
       "U+16A61", "U+16A62", "U+16A63", "U+16A64", "U+16A65", "U+16A66",
       "U+16A67", "U+16A68", "U+16A69", "U+16AC0", "U+16AC1", "U+16AC2",
       "U+16AC3", "U+16AC4", "U+16AC5", "U+16AC6", "U+16AC7", "U+16AC8",
       "U+16AC9", "U+16B50", "U+16B51", "U+16B52", "U+16B53", "U+16B54",
       "U+16B55", "U+16B56", "U+16B57", "U+16B58", "U+16B59", "U+1D7CE",
       "U+1D7CF", "U+1D7D0", "U+1D7D1", "U+1D7D2", "U+1D7D3", "U+1D7D4",
       "U+1D7D5", "U+1D7D6", "U+1D7D7", "U+1D7D8", "U+1D7D9", "U+1D7DA",
       "U+1D7DB", "U+1D7DC", "U+1D7DD", "U+1D7DE", "U+1D7DF", "U+1D7E0",
       "U+1D7E1", "U+1D7E2", "U+1D7E3", "U+1D7E4", "U+1D7E5", "U+1D7E6",
       "U+1D7E7", "U+1D7E8", "U+1D7E9", "U+1D7EA", "U+1D7EB", "U+1D7EC",
       "U+1D7ED", "U+1D7EE", "U+1D7EF", "U+1D7F0", "U+1D7F1", "U+1D7F2",
       "U+1D7F3", "U+1D7F4", "U+1D7F5", "U+1D7F6", "U+1D7F7", "U+1D7F8",
       "U+1D7F9", "U+1D7FA", "U+1D7FB", "U+1D7FC", "U+1D7FD", "U+1D7FE",
       "U+1D7FF", "U+1E140", "U+1E141", "U+1E142", "U+1E143", "U+1E144",
       "U+1E145", "U+1E146", "U+1E147", "U+1E148", "U+1E149", "U+1E2F0",
       "U+1E2F1", "U+1E2F2", "U+1E2F3", "U+1E2F4", "U+1E2F5", "U+1E2F6",
       "U+1E2F7", "U+1E2F8", "U+1E2F9", "U+1E950", "U+1E951", "U+1E952",
       "U+1E953", "U+1E954", "U+1E955", "U+1E956", "U+1E957", "U+1E958",
       "U+1E959", "U+1FBF0", "U+1FBF1", "U+1FBF2", "U+1FBF3", "U+1FBF4",
       "U+1FBF5", "U+1FBF6", "U+1FBF7", "U+1FBF8", "U+1FBF9" >>

\* The characters str.isdigit() accepts and str.isdecimal() does not
\* (Numeric_Type=Digit: superscripts, subscripts, circled digits, ...).
UnicodeOtherDigits ==
    { "U+00B2", "U+00B3", "U+00B9", "U+1369", "U+136A", "U+136B", "U+136C",
       "U+136D", "U+136E", "U+136F", "U+1370", "U+1371", "U+19DA", "U+2070",
       "U+2074", "U+2075", "U+2076", "U+2077", "U+2078", "U+2079", "U+2080",
       "U+2081", "U+2082", "U+2083", "U+2084", "U+2085", "U+2086", "U+2087",
       "U+2088", "U+2089", "U+2460", "U+2461", "U+2462", "U+2463", "U+2464",
       "U+2465", "U+2466", "U+2467", "U+2468", "U+2474", "U+2475", "U+2476",
       "U+2477", "U+2478", "U+2479", "U+247A", "U+247B", "U+247C", "U+2488",
       "U+2489", "U+248A", "U+248B", "U+248C", "U+248D", "U+248E", "U+248F",
       "U+2490", "U+24EA", "U+24F5", "U+24F6", "U+24F7", "U+24F8", "U+24F9",
       "U+24FA", "U+24FB", "U+24FC", "U+24FD", "U+24FF", "U+2776", "U+2777",
       "U+2778", "U+2779", "U+277A", "U+277B", "U+277C", "U+277D", "U+277E",
       "U+2780", "U+2781", "U+2782", "U+2783", "U+2784", "U+2785", "U+2786",
       "U+2787", "U+2788", "U+278A", "U+278B", "U+278C", "U+278D", "U+278E",
       "U+278F", "U+2790", "U+2791", "U+2792", "U+10A40", "U+10A41", "U+10A42",
       "U+10A43", "U+10E60", "U+10E61", "U+10E62", "U+10E63", "U+10E64",
       "U+10E65", "U+10E66", "U+10E67", "U+10E68", "U+11052", "U+11053",
       "U+11054", "U+11055", "U+11056", "U+11057", "U+11058", "U+11059",
       "U+1105A", "U+1F100", "U+1F101", "U+1F102", "U+1F103", "U+1F104",
       "U+1F105", "U+1F106", "U+1F107", "U+1F108", "U+1F109", "U+1F10A" }

\* The characters outside ASCII that str.isspace() accepts.
UnicodeSpaces ==
    { "U+0085", "U+00A0", "U+1680", "U+2000", "U+2001", "U+2002", "U+2003",
       "U+2004", "U+2005", "U+2006", "U+2007", "U+2008", "U+2009", "U+200A",
       "U+2028", "U+2029", "U+202F", "U+205F", "U+3000" }

\* C isspace() in the C locale
AsciiSpaces == {" ", "\t", "\n", "U+000B", "\f", "\r"}

\* unicodedata.decimal(c, -1)
DigitOf(c) ==
    IF \E i \in 1 .. Len(DigitChars) : DigitChars[i] = c
      THEN (CHOOSE i \in 1 .. Len(DigitChars) : DigitChars[i] = c) - 1
    ELSE IF \E i \in 1 .. Len(UnicodeDecimals) : UnicodeDecimals[i] = c
      THEN ((CHOOSE i \in 1 .. Len(UnicodeDecimals) : UnicodeDecimals[i] = c) - 1) % 10
    ELSE 0 - 1

\* c.isdigit() for one character
IsDigitChar(c) == DigitOf(c) >= 0 \/ c \in UnicodeOtherDigits

\* every character is a digit (true of the empty string)
AllDigits(t) == \A i \in 1 .. Len(t) : IsDigitChar(t[i])

\* str.isdigit(), line 250
isdigit(t) == Len(t) > 0 /\ AllDigits(t)

DigitsOfText(t) == [i \in 1 .. Len(t) |-> DigitOf(t[i])]

\* the text of a non-negative int whose digits are given
TextOfDigits(d) == [i \in 1 .. Len(d) |-> DigitChars[d[i] + 1]]

\* the position of the first character of t in cs, 0 if none
IndexOf(t, cs) ==
    IF \E i \in 1 .. Len(t) : t[i] \in cs
      THEN CHOOSE i \in 1 .. Len(t) :
              t[i] \in cs /\ \A j \in 1 .. i - 1 : t[j] \notin cs
      ELSE 0

Unsigned(t) == IF t # <<>> /\ t[1] \in {"+", "-"} THEN Tail(t) ELSE t

\* line 251: int(N_input) for a text that passed isdigit(): the value when
\* every character is a decimal digit and there are at most 4300 of them
\* (sys.int_info.default_max_str_digits)
IntOfDigitText(t) ==
    IF \E i \in 1 .. Len(t) : DigitOf(t[i]) < 0 THEN Raise("ValueError")
    ELSE IF Len(t) > 4300 THEN Raise("ValueError")
    ELSE Return(BigInt(FALSE, DigitsOfText(t)))

\* the text float() parses: a space for each Unicode space, the ASCII digit
\* for each decimal digit (a character left outside ASCII fits no literal)
ToAscii(t) ==
    [i \in 1 .. Len(t) |->
        IF t[i] \in UnicodeSpaces THEN " "
        ELSE IF DigitOf(t[i]) >= 0 THEN DigitChars[DigitOf(t[i]) + 1]
        ELSE t[i]]

\* leading and trailing whitespace removed
StripSpaces(t) ==
    IF \A i \in 1 .. Len(t) : t[i] \in AsciiSpaces THEN <<>>
    ELSE SubSeq(t,
                CHOOSE i \in 1 .. Len(t) :
                    t[i] \notin AsciiSpaces
                        /\ \A j \in 1 .. i - 1 : t[j] \in AsciiSpaces,
                CHOOSE i \in 1 .. Len(t) :
                    t[i] \notin AsciiSpaces
                        /\ \A j \in i + 1 .. Len(t) : t[j] \in AsciiSpaces)

AllAsciiDigits(t) ==
    \A i \in 1 .. Len(t) : \E j \in 1 .. Len(DigitChars) : DigitChars[j] = t[i]

\* an underscore stands between two digits
UnderscoresGrouped(t) ==
    \A i \in 1 .. Len(t) :
        t[i] = "_" => /\ 1 < i /\ i < Len(t)
                      /\ AllAsciiDigits(<<t[i - 1], t[i + 1]>>)

\* the text in lower case, for the letters of inf, infinity and nan
LowerText(t) ==
    [i \in 1 .. Len(t) |->
        CASE t[i] = "I" -> "i" [] t[i] = "N" -> "n" [] t[i] = "F" -> "f"
          [] t[i] = "T" -> "t" [] t[i] = "Y" -> "y" [] t[i] = "A" -> "a"
          [] OTHER -> t[i]]

\* the literal float() reads in a text.  float() takes
\*   [space] [sign] digits [. digits] [e [sign] digits] [space]
\* (digits on at least one side of the point, underscores between digits,
\* any decimal digits) or inf, infinity, nan in any case, and raises
\* ValueError for any other text.  The literal is digs * 10^exp of sign
\* neg; an exponent of more than 9 digits is taken as 10^9 (the double is an
\* infinity or a zero either way).
FloatLiteral(t) ==
    LET s    == StripSpaces(ToAscii(t))
        u    == SelectSeq(s, LAMBDA c : c # "_")
        body == Unsigned(u)
        word == LowerText(body)
        ePos == IndexOf(body, {"e", "E"})
        mant == IF ePos = 0 THEN body ELSE SubSeq(body, 1, ePos - 1)
        expT == IF ePos = 0 THEN <<"0">> ELSE SubSeq(body, ePos + 1, Len(body))
        expU == Unsigned(expT)
        dot  == IndexOf(mant, {"."})
        ip   == IF dot = 0 THEN mant ELSE SubSeq(mant, 1, dot - 1)
        fp   == IF dot = 0 THEN <<>> ELSE SubSeq(mant, dot + 1, Len(mant))
        wellFormed == /\ AllAsciiDigits(ip) /\ AllAsciiDigits(fp)
                      /\ Len(ip) + Len(fp) > 0
                      /\ Len(expU) > 0 /\ AllAsciiDigits(expU)
        exD  == StripZeros(DigitsOfText(expU))
        ex   == IF Len(exD) > 9 THEN 1000000000 ELSE SmallInt(exD, 0)
    IN  IF ~UnderscoresGrouped(s) THEN Raise("ValueError")
        ELSE IF word = <<"i", "n", "f">>
                  \/ word = <<"i", "n", "f", "i", "n", "i", "t", "y">>
          THEN Return([kind |-> "inf", neg |-> u[1] = "-"])
        ELSE IF word = <<"n", "a", "n">>
          THEN Return([kind |-> "nan", neg |-> u[1] = "-"])
        ELSE IF ~wellFormed THEN Raise("ValueError")
        ELSE Return([kind |-> "num", neg |-> u[1] = "-",
                     digs |-> DigitsOfText(ip \o fp),
                     exp  |-> (IF expT[1] = "-" THEN 0 - ex ELSE ex) - Len(fp)])

\* float(text): the double nearest the literal (an infinity from
\* 2^1024 - 2^970 on, a zero up to 2^-1075), or ValueError
FloatOfText(t) ==
    Bind(FloatLiteral(t), LAMBDA l :
        IF l.status # "ok" THEN l
        ELSE IF l.value.kind = "inf" THEN Return(FloatInf(l.value.neg))
        ELSE IF l.value.kind = "nan" THEN Return(FloatNan)
        ELSE Return(FloatOfLiteral(l.value.neg, l.value.digs, l.value.exp)))

\* line 253: int(float(N_input)): int() truncates the double, and raises
\* OverflowError for an infinity and ValueError for a nan
IntOfFloatText(t) ==
    Bind(FloatOfText(t), LAMBDA f :
        IF f.status # "ok" THEN f
        ELSE IF f.value.kind = "inf" THEN Raise("OverflowError")
        ELSE IF f.value.kind = "nan" THEN Raise("ValueError")
        ELSE Return(BigInt(f.value.neg, IntOfFloat(f.value))))

\* lines 249-255: N_int parsed from N_input; any exception of int() or
\* float() is raised again as ValueError
ParseN(t) ==
    Bind(IF isdigit(t) THEN IntOfDigitText(t) ELSE IntOfFloatText(t), LAMBDA o :
        IF o.status = "ok" THEN o ELSE Raise("ValueError"))

(***************************************************************************)
(* The values json.loads gives (line 240) and the defaults hold:           *)
(*   [str |-> the characters]                  a string                    *)
(*   [int |-> the int]                         a number written as an int  *)
(*   [num |-> the float, repr |-> its repr()]  any other number            *)
(*   [bool |-> TRUE or FALSE], [null |-> TRUE] true, false, null           *)
(*   [list |-> the elements]                   an array                    *)
(*   [obj |-> the keys, in order]              an object                   *)
(* A dict is the function from its keys (strings) to its values.           *)
(***************************************************************************)
JStr(chars) == [str |-> chars]
JInt(digs) == [int |-> BigInt(FALSE, digs)]
JNum(digs, ex, text) == [num |-> FloatOfLiteral(FALSE, digs, ex), repr |-> text]
JList(items) == [list |-> items]

KeyN_star_str == <<"N", "_", "s", "t", "a", "r", "_", "s", "t", "r">>
KeyN_star == <<"N", "_", "s", "t", "a", "r">>
KeyK == <<"K">>
KeyS_floor == <<"S", "_", "f", "l", "o", "o", "r">>
KeyC_W == <<"C", "_", "W">>

\* str(v) of line 248, for a value that is no array and no object
StrOfValue(v) ==
    CASE "str" \in DOMAIN v -> v.str
      [] "int" \in DOMAIN v ->
            (IF v.int.neg THEN <<"-">> ELSE <<>>)
                \o (IF v.int.mag = <<>> THEN <<"0">> ELSE TextOfDigits(v.int.mag))
      [] "num" \in DOMAIN v -> v.repr
      [] "bool" \in DOMAIN v ->
            IF v.bool THEN <<"T", "r", "u", "e">> ELSE <<"F", "a", "l", "s", "e">>
      [] "null" \in DOMAIN v -> <<"N", "o", "n", "e">>

\* float(v) of lines 257-259 for a value of the defaults: a float is
\* itself, an int is the float nearest it (OverflowError when that is
\* infinite), true and false are 1.0 and 0.0, a string is read as a
\* literal, anything else (null, an array, an object) raises TypeError
FloatOfValue(v) ==
    IF "num" \in DOMAIN v THEN Return(v.num)
    ELSE IF "int" \in DOMAIN v
      THEN Bind(FloatOfDigits(v.int.neg, v.int.mag), LAMBDA f :
                IF f.kind = "inf" THEN Raise("OverflowError") ELSE Return(f))
    ELSE IF "bool" \in DOMAIN v
      THEN Return(IF v.bool THEN One ELSE FloatZero(FALSE))
    ELSE IF "str" \in DOMAIN v THEN FloatOfText(v.str)
    ELSE Raise("TypeError")

\* line 277: abs(float(N_int) - 4.0e18) < 0.5e18, for an N_int float() can
\* hold
InBaselineWindow(N) ==
    FloatLess(FloatAbs(FloatSub(FloatOfDigits(N.neg, N.mag),
                                FloatOfLiteral(FALSE, <<4, 0>>, 17))),
              FloatOfLiteral(FALSE, <<0, 5>>, 17))

\* lines 231-237
BuiltinDefaults ==
    (KeyN_star_str :> JStr(<<"4">> \o TextOfDigits(Zeros(18))))
      @@ (KeyN_star :> JNum(<<4>>, 18, <<"4", "e", "+", "1", "8">>))
      @@ (KeyK :> [num |-> DefaultK, repr |-> <<"1", "0", ".", "0">>])
      @@ (KeyS_floor :> [num |-> DefaultS_floor, repr |-> <<"1", ".", "2">>])
      @@ (KeyC_W :> [num |-> DefaultC_W, repr |-> <<"2", ".", "0">>])

\* dict.update of line 241 with a dict
DictUpdate(d, u) ==
    [key \in DOMAIN d \cup DOMAIN u |-> IF key \in DOMAIN u THEN u[key] ELSE d[key]]

\* dict.update of line 241 with a JSON array takes the items in order.
\* Each must be iterable and give two elements, key and value: an array of
\* two, a string of two characters, or an object of two keys (its keys are
\* what iterating it gives); and the key must be hashable (an array or an
\* object is not).  The first item that fails raises, with the items before
\* it already stored.  Whether an item is stored:
PairStores(it) ==
    \/ "str" \in DOMAIN it /\ Len(it.str) = 2
    \/ "obj" \in DOMAIN it /\ Len(it.obj) = 2
    \/ /\ "list" \in DOMAIN it
       /\ Len(it.list) = 2
       /\ DOMAIN it.list[1] \cap {"list", "obj"} = {}

\* the number of items stored
PairsStored(items) ==
    CHOOSE i \in 0 .. Len(items) :
        /\ \A j \in 1 .. i : PairStores(items[j])
        /\ i = Len(items) \/ ~PairStores(items[i + 1])

\* the entries with a string key of the dict of the first i items (main
\* reads string keys only); a key given twice keeps its last value
PairsDict(items, i) ==
    LET name(it) == IF "str" \in DOMAIN it THEN <<it.str[1]>>
                    ELSE IF "obj" \in DOMAIN it THEN it.obj[1]
                    ELSE it.list[1].str
        val(it)  == IF "str" \in DOMAIN it THEN JStr(<<it.str[2]>>)
                    ELSE IF "obj" \in DOMAIN it THEN JStr(it.obj[2])
                    ELSE it.list[2]
        named == {j \in 1 .. i : \/ "str" \in DOMAIN items[j]
                                 \/ "obj" \in DOMAIN items[j]
                                 \/ "str" \in DOMAIN items[j].list[1]}
    IN  [key \in {name(items[j]) : j \in named} |->
            val(items[CHOOSE j \in named :
                          /\ name(items[j]) = key
                          /\ \A j2 \in named : j2 > j => name(items[j2]) # key])]

\* dict.get(key, dflt), lines 248 and 257-259
DictGet(d, key, dflt) == IF key \in DOMAIN d THEN d[key] ELSE dflt

\* line 248: str(defaults.get("N_star_str", defaults.get("N_star",
\* "4000000000000000000")))
DefaultNInput(d) ==
    StrOfValue(DictGet(d, KeyN_star_str,
                       DictGet(d, KeyN_star, BuiltinDefaults[KeyN_star_str])))

\* the command lines and configuration files of the runs explored
ArgNs ==
    { <<"1">>, <<"0">>, <<"-", "5">>, <<"a", "b", "c">>, <<"2", "4", "3">>,
      <<"3", ".", "3", "e", "4">>,
      <<" ", "1", "2">>, <<"1", "_", "0">>, <<"1", "_", "0", ".", "5">>,
      <<"U+0663", "U+0662">>, <<"U+0663", ".", "5">>, <<"U+00B2">>,
      <<"1", "e", "2", "3">>, <<"1", "e", "6", "0">>, <<"1", "e", "4", "0", "0">>,
      <<"9", "0", "0", "7", "1", "9", "9", "2", "5", "4", "7", "4", "0", "9",
        "9", "3", ".", "0">>,
      <<"2", ".">> \o TextOfDigits([i \in 1 .. 19 |-> 9]),
      <<"1">> \o TextOfDigits(Zeros(309)),
      <<"3", "9">> \o TextOfDigits(Zeros(17)),
      <<"3", "5">> \o TextOfDigits(Zeros(16)) \o <<"1">>,
      <<"4", "4">> \o TextOfDigits([i \in 1 .. 17 |-> 9]),
      <<"4", "e", "1", "8">> }

Argvs ==
    { [method |-> m, prec |-> pr, strict |-> st, assert_baseline |-> ab] :
        m \in Methods, pr \in {1, MaxPrec}, st \in BOOLEAN, ab \in BOOLEAN }
    \cup
    { [N |-> t, method |-> m, prec |-> pr, strict |-> st, assert_baseline |-> ab] :
        t \in ArgNs, m \in Methods, pr \in {1, MaxPrec}, st \in BOOLEAN,
        ab \in BOOLEAN }

\* lines 238-240: the file is absent; or reading or decoding it raises, or
\* json.loads gives a value dict.update cannot iterate (null, a number);
\* or json.loads gives an object (cfg) or an array (items).  The objects:
\*   {}, {"N_star": 1e20}, {"N_star_str": "243"}, {"N_star_str": 243},
\*   {"N_star_str": null}, {"N_star_str": "1024", "N_star": 1024.0, "K": 5},
\*   {"K": 5, "S_floor": 1.5, "C_W": 3}, {"K": 0}, {"S_floor": 0},
\*   {"K": Infinity}, {"K": "abc"}, {"K": "2.5", "S_floor": "nan"},
\*   {"C_W": null}, {"K": 1e308}, {"K": 1e300, "S_floor": 1e-30},
\*   {"S_floor": 5e-324}, {"S_floor": 1e-324}, {"K": true}, {"K": false},
\*   {"K": 1 followed by 400 zeros}
\* The arrays:
\*   [], [["K", 5]], [["K", 5], [3]], [["K", 5], 3], [["K", 5], ["K", 7]],
\*   [[3], ["K", 5]], [["N_star_str", "243"], ["C_W", 3]], [["K", 5], [[1], 2]],
\*   [[[1], 2], ["K", 5]], [["K", 5], [["a"], 2], ["C_W", 3]],
\*   [[1, 2], ["K", 5]], [["K", 5], "ab", "abc"], [{"K": 1, "x": 2}],
\*   [["K", 5], {"K": 1}], [{"C_W": 1, "K": 2}, ["S_floor", 3]]
CfgFiles ==
    LET five == JInt(<<5>>)
        K5  == JList(<<JStr(KeyK), five>>)
        CW3 == JList(<<JStr(KeyC_W), JInt(<<3>>)>>)
        one == JList(<<JInt(<<3>>)>>)
        bad == JList(<<JList(<<JInt(<<1>>)>>), JInt(<<2>>)>>)
        badstr == JList(<<JList(<<JStr(<<"a">>)>>), JInt(<<2>>)>>)
    IN  { [exists |-> FALSE], [exists |-> TRUE, valid |-> FALSE] }
        \cup
        { [exists |-> TRUE, valid |-> TRUE, cfg |-> c] : c \in
            { <<>>,
              KeyN_star :> JNum(<<1>>, 20, <<"1", "e", "+", "2", "0">>),
              KeyN_star_str :> JStr(<<"2", "4", "3">>),
              KeyN_star_str :> JInt(<<2, 4, 3>>),
              KeyN_star_str :> [null |-> TRUE],
              (KeyN_star_str :> JStr(<<"1", "0", "2", "4">>))
                @@ (KeyN_star :> JNum(<<1, 0, 2, 4>>, 0,
                                      <<"1", "0", "2", "4", ".", "0">>))
                @@ (KeyK :> five),
              (KeyK :> five)
                @@ (KeyS_floor :> JNum(<<1, 5>>, 0 - 1, <<"1", ".", "5">>))
                @@ (KeyC_W :> JInt(<<3>>)),
              KeyK :> JInt(<<>>),
              KeyS_floor :> JInt(<<>>),
              KeyK :> [num |-> FloatInf(FALSE), repr |-> <<"i", "n", "f">>],
              KeyK :> JStr(<<"a", "b", "c">>),
              (KeyK :> JStr(<<"2", ".", "5">>))
                @@ (KeyS_floor :> JStr(<<"n", "a", "n">>)),
              KeyC_W :> [null |-> TRUE],
              KeyK :> JNum(<<1>>, 308, <<"1", "e", "+", "3", "0", "8">>),
              (KeyK :> JNum(<<1>>, 300, <<"1", "e", "+", "3", "0", "0">>))
                @@ (KeyS_floor :> JNum(<<1>>, 0 - 30, <<"1", "e", "-", "3", "0">>)),
              KeyS_floor :> JNum(<<5>>, 0 - 324, <<"5", "e", "-", "3", "2", "4">>),
              KeyS_floor :> JNum(<<1>>, 0 - 324, <<"0", ".", "0">>),
              KeyK :> [bool |-> TRUE],
              KeyK :> [bool |-> FALSE],
              KeyK :> JInt(<<1>> \o Zeros(400)) } }
        \cup
        { [exists |-> TRUE, valid |-> TRUE, items |-> l] : l \in
            { <<>>,
              <<K5>>,
              <<K5, one>>,
              <<K5, JInt(<<3>>)>>,
              <<K5, JList(<<JStr(KeyK), JInt(<<7>>)>>)>>,
              <<one, K5>>,
              <<JList(<<JStr(KeyN_star_str), JStr(<<"2", "4", "3">>)>>), CW3>>,
              <<K5, bad>>,
              <<bad, K5>>,
              <<K5, badstr, CW3>>,
              <<JList(<<JInt(<<1>>), JInt(<<2>>)>>), K5>>,
              <<K5, JStr(<<"a", "b">>), JStr(<<"a", "b", "c">>)>>,
              <<[obj |-> <<KeyK, <<"x">>>>]>>,
              <<K5, [obj |-> <<KeyK>>]>>,
              <<[obj |-> <<KeyC_W, KeyK>>], JList(<<JStr(KeyS_floor), JInt(<<3>>)>>)>> } }

\* what defaults.update(cfg) of line 241 stores before it returns or raises
Stored(f) ==
    IF ~f.exists \/ ~f.valid THEN <<>>
    ELSE IF "cfg" \in DOMAIN f THEN f.cfg
    ELSE PairsDict(f.items, PairsStored(f.items))

\* lines 240-243: the except clause is entered
ConfigWarns(f) ==
    /\ f.exists
    /\ \/ ~f.valid
       \/ "items" \in DOMAIN f /\ PairsStored(f.items) < Len(f.items)

\* the runs explored: every command line with no file, and every file with
\* the command lines that give no --N or --N 243
Runs ==
    {<<a, [exists |-> FALSE]>> : a \in Argvs}
        \cup {<<a, f>> : a \in {x \in Argvs : "N" \in DOMAIN x => x.N = <<"2", "4", "3">>},
                         f \in CfgFiles}

\* the state at line 187; decimal.getcontext().prec of a fresh interpreter
\* is 28
InitMain ==
    /\ RootIdle
    /\ SieveIdle
    /\ ctxprec = 28 /\ ipc = "idle" /\ last = NoCall
    /\ first = Untracked
    /\ PerQIdle
    /\ \E run \in Runs : argv = run[1] /\ cfgfile = run[2]
    /\ mpc = "config"
    /\ defaults = None
    /\ N_input = None
    /\ N_int = None
    /\ result = None
    /\ stdout = <<>>
    /\ stderr = <<>>
    /\ status = None

\* an exception leaves main: traceback on stderr, exit status 1
MainRaise(exc) ==
    /\ mpc' = "exited"
    /\ stderr' = Append(stderr, exc)
    /\ status' = 1

\* lines 231-243: the defaults, updated from the file as far as update()
\* gets; an exception on the way is a warning
MainLoadConfig ==
    /\ mpc = "config"
    /\ mpc' = "parse"
    /\ defaults' = DictUpdate(BuiltinDefaults, Stored(cfgfile))
    /\ stderr' = IF ConfigWarns(cfgfile) THEN Append(stderr, "warn") ELSE stderr
    /\ UNCHANGED <<argv, cfgfile, N_input, N_int, result, stdout, status>>
    /\ UNCHANGED <<rootVars, sieveVars, callVars, perqVars>>

\* lines 245-255
MainParseN ==
    /\ mpc = "parse"
    /\ N_input' = IF "N" \in DOMAIN argv THEN argv.N ELSE DefaultNInput(defaults)
    /\ \E o \in {ParseN(N_input')} :
          IF o.status = "ok"
            THEN /\ N_int' = o.value
                 /\ mpc' = "compute"
                 /\ UNCHANGED <<stderr, status>>
            ELSE /\ MainRaise(o.status)
                 /\ UNCHANGED N_int
    /\ UNCHANGED <<argv, cfgfile, defaults, result, stdout>>
    /\ UNCHANGED <<rootVars, sieveVars, callVars, perqVars>>

\* 2^315: from it on Q = floor(N^(1/5)) >= 2^63, more than a list can hold
ListLimitPow5 ==
    <<6, 6, 7, 4, 9, 5, 9, 4, 8, 7, 2, 5, 2, 8, 4, 4, 0, 0, 7, 4, 8, 4,
      4, 4, 2, 8, 3, 1, 7, 7, 9, 8, 5, 0, 3, 5, 8, 1, 3, 3, 4, 5, 1, 6,
      3, 2, 3, 6, 4, 5, 3, 9, 9, 0, 6, 0, 8, 4, 5, 0, 5, 0, 2, 4, 4, 4,
      4, 4, 3, 6, 6, 4, 3, 0, 6, 4, 5, 0, 1, 7, 1, 8, 8, 2, 1, 7, 5, 6,
      5, 2, 1, 6, 7, 6, 8>>

\* The lists of line 55 have Q + 1 elements and more.  Whether one of 10^7
\* elements or more (an N_int of this many digits or more) fits in memory
\* is the machine's to say: MemoryError is then one of the outcomes.
MemoryDigits == 36

\* lines 132-154 for an N_int whose sums are not evaluated: the floats of
\* the record that do not depend on them
LargeTailRecord(N, K, S_floor, C_W, method, prec) ==
    Bind(FloatOfDigits(FALSE, N.mag), LAMBDA Nf :
    Bind(MathLog(Nf), LAMBDA L :
        IF TailDivisionByZero(K, S_floor, Nf, L) THEN Raise("ZeroDivisionError")
        ELSE Return([constants |-> [K |-> K, S_floor |-> S_floor, C_W |-> C_W,
                                    method |-> method, prec |-> prec],
                     N |-> Nf,
                     logN |-> L,
                     R |-> PowSixTenths(Nf),
                     share |-> TailShare(K, S_floor, Nf, L).value])))

\* the outcomes of compute_tail_margins(N_int, K, S_floor, C_W, method=,
\* prec=) for an N_int carried as digits: the operator's own for an N of at
\* most MaxMainDigits digits; beyond, the sums are not evaluated and the
\* record holds the fields they do not enter.  The check of line 119 then
\* passes, the exact sums gaining a positive term at each step; both
\* outcomes of the check of line 128 on the decimal sums are kept.
\* list(range(Q)) of line 55 raises OverflowError for Q >= 2^63 (every
\* N_int that float() cannot hold is one).
MainTailOutcomes(N, K, S_floor, C_W, method, prec) ==
    IF N.neg \/ N.mag = <<>> THEN {Raise("ValueError")}
    ELSE IF Len(N.mag) <= MaxMainDigits
      THEN {compute_tail_margins(SmallInt(N.mag, 0), K, S_floor, C_W, method,
                                 prec, ctxprec).ret}
    ELSE IF ~MagLess(N.mag, ListLimitPow5) THEN {Raise("OverflowError")}
    ELSE {LargeTailRecord(N, K, S_floor, C_W, method, prec)}
         \cup (IF method = "decimal" THEN {Raise("AssertionError")} ELSE {})
         \cup (IF Len(N.mag) >= MemoryDigits THEN {Raise("MemoryError")} ELSE {})

\* lines 257-268: K, S_floor and C_W converted in this order, the first
\* conversion that raises ending the run, then the call
MainCompute ==
    /\ mpc = "compute"
    /\ LET K       == FloatOfValue(DictGet(defaults, KeyK, BuiltinDefaults[KeyK]))
           S_floor == FloatOfValue(DictGet(defaults, KeyS_floor,
                                           BuiltinDefaults[KeyS_floor]))
           C_W     == FloatOfValue(DictGet(defaults, KeyC_W,
                                           BuiltinDefaults[KeyC_W]))
       IN  \E o \in IF K.status # "ok" THEN {K}
                    ELSE IF S_floor.status # "ok" THEN {S_floor}
                    ELSE IF C_W.status # "ok" THEN {C_W}
                    ELSE MainTailOutcomes(N_int, K.value, S_floor.value,
                                          C_W.value, argv.method, argv.prec) :
              IF o.status = "ok"
                THEN /\ result' = o.value
                     /\ mpc' = "print"
                     /\ UNCHANGED <<stderr, status>>
                ELSE /\ MainRaise(o.status)
                     /\ UNCHANGED result
    /\ UNCHANGED <<argv, cfgfile, defaults, N_input, N_int, stdout>>
    /\ UNCHANGED <<rootVars, sieveVars, callVars, perqVars>>

\* line 269
MainPrintResult ==
    /\ mpc = "print"
    /\ mpc' = "strict"
    /\ stdout' = Append(stdout, [kind |-> "result", record |-> result])
    /\ UNCHANGED <<argv, cfgfile, defaults, N_input, N_int, result, stderr, status>>
    /\ UNCHANGED <<rootVars, sieveVars, callVars, perqVars>>

\* 9769^5: from it on Q >= 9769, and the numerator and the denominator of
\* the exact sum S(Q) have more than 4300 digits (4303 at Q = 9769)
FractionTextLimit ==
    <<8, 8, 9, 7, 1, 4, 2, 5, 3, 2, 1, 0, 6, 7, 4, 9, 9, 8, 4, 9>>

\* lines 271-275: strict_diagnostics(N_int, base_prec=max(50, args.prec),
\* hi_prec=max(120, args.prec + 70), kmax=5), N_int positive here.  Its
\* harmonic_sum_decimal calls (line 169, Q >= 1) assign the process-wide
\* precision, base_prec first and hi_prec last.  Line 179 writes the
\* numerator and the denominator of the exact sum as text, which raises
\* ValueError for an int of more than 4300 digits; the lists of line 55 may
\* not fit in memory, as in MainTailOutcomes.  The record (sums at
\* precisions of 50 digits and more) is carried as a token.
MainStrict ==
    /\ mpc = "strict"
    /\ LET base == IF argv.prec > 50 THEN argv.prec ELSE 50
           high == IF argv.prec + 70 > 120 THEN argv.prec + 70 ELSE 120
       IN  \E o \in IF ~argv.strict THEN {[status |-> "skip", ctx |-> ctxprec]}
                    ELSE {[status |-> IF MagLess(N_int.mag, FractionTextLimit)
                                        THEN "ok" ELSE "ValueError",
                           ctx |-> high]}
                         \cup IF Len(N_int.mag) >= MemoryDigits
                                THEN {[status |-> "MemoryError", ctx |-> c] :
                                         c \in {base, high}}
                                ELSE {} :
              /\ ctxprec' = o.ctx
              /\ IF o.status \in {"skip", "ok"}
                   THEN /\ mpc' = "baseline"
                        /\ stdout' = IF o.status = "ok"
                                       THEN Append(stdout, [kind |-> "strict",
                                                            record |-> None])
                                       ELSE stdout
                        /\ UNCHANGED <<stderr, status>>
                   ELSE /\ MainRaise(o.status)
                        /\ UNCHANGED stdout
    /\ UNCHANGED <<argv, cfgfile, defaults, N_input, N_int, result>>
    /\ UNCHANGED <<ipc, last, first, rootVars, sieveVars, perqVars>>


\* lines 277-284: the double S_value of sieve_phi_sum(Q), Q near 5253, is
\* not evaluated; both outcomes of the comparison of line 281 are kept
MainBaseline ==
    /\ mpc = "baseline"
    /\ \E mismatch \in IF argv.assert_baseline /\ InBaselineWindow(N_int)
                         THEN BOOLEAN ELSE {FALSE} :
          IF mismatch
            THEN MainRaise("AssertionError")
            ELSE /\ mpc' = "accept"
                 /\ UNCHANGED <<stderr, status>>
    /\ UNCHANGED <<argv, cfgfile, defaults, N_input, N_int, result, stdout>>
    /\ UNCHANGED <<rootVars, sieveVars, callVars, perqVars>>

\* line 286: ratio_trivial < 1e-3 and ratio_uniform < 1e-8; both outcomes
\* are kept for a record whose ratios were not evaluated
Accepted(rec) ==
    IF "ratio_trivial" \in DOMAIN rec
      THEN {/\ FloatLess(rec.ratio_trivial, FloatOfLiteral(FALSE, <<1>>, 0 - 3))
            /\ FloatLess(rec.ratio_uniform, FloatOfLiteral(FALSE, <<1>>, 0 - 8))}
      ELSE BOOLEAN

\* lines 286-287
MainExit ==
    /\ mpc = "accept"
    /\ mpc' = "exited"
    /\ \E ok \in Accepted(result) : status' = IF ok THEN 0 ELSE 2
    /\ UNCHANGED <<argv, cfgfile, defaults, N_input, N_int, result, stdout, stderr>>
    /\ UNCHANGED <<rootVars, sieveVars, callVars, perqVars>>

NextMain ==
    \/ MainLoadConfig
    \/ MainParseN
    \/ MainCompute
    \/ MainPrintResult
    \/ MainStrict
    \/ MainBaseline
    \/ MainExit

SpecMain == InitMain /\ [][NextMain]_vars

PrintedResult == \E i \in 1 .. Len(stdout) : stdout[i].kind = "result"

\* C7 as stated: a run that has printed a result record ends with exit
\* status 0 or 2; every fatal failure ends the run before any result record
\* has been printed.
C7_NoRecordBeforeFailure ==
    (mpc = "exited" /\ PrintedResult) => status \in {0, 2}

\* the configuration record of a run: what the file holds when update()
\* takes all of it, and nothing when the file is absent or the warning of
\* line 243 is given
ConfigRecord(f) == IF ConfigWarns(f) THEN <<>> ELSE Stored(f)


\* C8 as stated: without --N, the N evaluated is the configuration record's
\* N_star_str if it has one, otherwise its N_star, and the built-in default
\* only if the file is absent, unreadable or has neither key; K, S_floor and
\* C_W come from the record when present.
C8_ConfiguredValuesUsed ==
    /\ (mpc \notin {"config", "parse"} /\ "N" \notin DOMAIN argv) =>
          N_input =
            StrOfValue(DictGet(ConfigRecord(cfgfile), KeyN_star_str,
                               DictGet(ConfigRecord(cfgfile), KeyN_star,
                                       BuiltinDefaults[KeyN_star_str])))
    /\ PrintedResult =>
          /\ result.constants.K =
                FloatOfValue(DictGet(ConfigRecord(cfgfile), KeyK,
                                     BuiltinDefaults[KeyK])).value
          /\ result.constants.S_floor =
                FloatOfValue(DictGet(ConfigRecord(cfgfile), KeyS_floor,
                                     BuiltinDefaults[KeyS_floor])).value
          /\ result.constants.C_W =
                FloatOfValue(DictGet(ConfigRecord(cfgfile), KeyC_W,
                                     BuiltinDefaults[KeyC_W])).value

(***************************************************************************)
(* per_q_envelope.py                                                       *)
(*                                                                         *)
(* N, L = math.log(N), R = N ** Rexp and CW of line 37 are floats, and so  *)
(* are the envelopes and the sum.                                          *)
(***************************************************************************)
RECURSIVE RemoveFactor(_, _)
\* line 9: while x%p==0: x//=p
RemoveFactor(x, pp) ==
    IF x % pp = 0 THEN RemoveFactor(x \div pp, pp) ELSE x

RECURSIVE PhiLoop(_, _, _)
\* lines 7-12: the trial division from p on, then the factor left in x
PhiLoop(x, r, pp) ==
    IF pp * pp <= x
      THEN IF x % pp = 0
             THEN Bind(RemoveFactor(x, pp), LAMBDA x1 :
                       PhiLoop(x1, r - r \div pp, IF pp = 2 THEN 3 ELSE pp + 2))
             ELSE PhiLoop(x, r, IF pp = 2 THEN 3 ELSE pp + 2)
      ELSE IF x > 1 THEN r - r \div x ELSE r

\* phi(n) of per_q_envelope.py, lines 5-13
per_q_phi(m) == PhiLoop(m, m, 2)

\* lines 26-29: the envelope of a row with the floats c1 and c2
RowForm(form, c1, c2, N, L) ==
    IF form = "cNoverlog" THEN FloatDiv(FloatMul(c1, N), L)
    ELSE IF form = "cNlog" THEN FloatMul(FloatMul(c1, N), L)
    ELSE IF form = "affine"
      THEN FloatAdd(FloatMul(FloatMul(c1, N), L), FloatMul(c2, N))
    ELSE FloatDiv(FloatMul(c1, N), L)

\* PerQ.Eq(q, N, L), lines 22-29: KeyError when rows.get(q) is None or an
\* empty dict (line 24); line 25 reads form, then c1 and float(c1), then c2
\* and float(c2): KeyError for a column the row lacks, ValueError when
\* float() cannot read the text
PerQ_Eq(rws, q, N, L) ==
    IF q \notin DOMAIN rws \/ DOMAIN rws[q] = {} THEN Raise("KeyError")
    ELSE IF "form" \notin DOMAIN rws[q] \/ "c1" \notin DOMAIN rws[q]
      THEN Raise("KeyError")
    ELSE Bind(FloatOfText(rws[q]["c1"]), LAMBDA c1 :
        IF c1.status # "ok" THEN c1
        ELSE IF "c2" \notin DOMAIN rws[q] THEN Raise("KeyError")
        ELSE Bind(FloatOfText(rws[q]["c2"]), LAMBDA c2 :
            IF c2.status # "ok" THEN c2
            ELSE Return(RowForm(rws[q]["form"], c1.value, c2.value, N, L))))

\* line 44: the fallback envelope
Fallback(a) ==
    IF a.fallback = "uniform" THEN E_uniform(a.N, a.L) ELSE E_trivial(a.N, a.L)

MaxQcap == 4

\* the columns of the CSV file: csv.DictReader gives every row the keys of
\* the header line
Headers == { {"q", "form", "c1", "c2"}, {"q", "c1", "c2"} }

FullRows ==
    { [q |-> <<"0">>, form |-> "cNoverlog", c1 |-> <<"2">>, c2 |-> <<"0">>],
      [q |-> <<"0">>, form |-> "cNlog",     c1 |-> <<"1", ".", "5">>,
                                            c2 |-> <<"0">>],
      [q |-> <<"0">>, form |-> "affine",    c1 |-> <<"2">>,
                                            c2 |-> <<"0", ".", "1">>],
      [q |-> <<"0">>, form |-> "table7",    c1 |-> <<"3">>, c2 |-> <<"1">>],
      [q |-> <<"0">>, form |-> "cNlog",     c1 |-> <<"1">>, c2 |-> <<"x">>] }

\* the row with its q column set and the columns outside the header dropped
RowAt(r, q, h) ==
    [col \in h |-> IF col = "q" THEN <<DigitChars[q + 1]>> ELSE r[col]]

\* lines 18-21: perq.rows after load, keyed by int(row["q"]); no file
\* leaves it empty
Tables ==
    UNION { UNION { { [q \in S |-> RowAt(f[q], q, h)] : f \in [S -> FullRows] } :
                    S \in SUBSET (2 .. MaxQcap) } :
            h \in Headers }

\* lines 32-37 for --N 8 and the defaults of K, S, Wsup and Rexp: N = 8.0,
\* K = 10.0, S = 1.2, L = math.log(N), R = N ** 0.6, CW = 2.0 * 1.0
Namespace(c, fb) ==
    Bind(FloatOfLiteral(FALSE, <<8>>, 0), LAMBDA N :
         [N |-> N, K |-> DefaultK, S |-> DefaultS_floor,
          L |-> MathLog(N), R |-> PowSixTenths(N), CW |-> FloatMul(Two, One),
          Qcap |-> c, fallback |-> fb])

InitPerQ ==
    /\ RootIdle
    /\ SieveIdle
    /\ CallIdle
    /\ MainIdle
    /\ ns \in { Namespace(c, fb) : c \in 1 .. MaxQcap, fb \in {"uniform", "trivial"} }
    /\ rows \in Tables
    /\ qq = 2
    /\ ema = FloatZero(FALSE)
    /\ missing = 0
    /\ Eqs = <<>>
    /\ ppc = "loop"
    /\ printed = None

\* lines 41-45: one iteration of the loop; an exception other than KeyError
\* ends the run
PerQStep ==
    /\ ppc = "loop"
    /\ qq <= ns.Qcap
    /\ \E o \in {PerQ_Eq(rows, qq, ns.N, ns.L)} :
        IF o.status \in {"ok", "KeyError"}
          THEN \E E \in {IF o.status = "KeyError" THEN Fallback(ns) ELSE o.value} :
                  /\ missing' = IF o.status = "KeyError" THEN missing + 1 ELSE missing
                  /\ ema' = FloatAdd(ema, FloatDiv(E, FloatOfDigits(FALSE,
                                              DigitsOfInt(qq * per_q_phi(qq)))))
                  /\ Eqs' = Append(Eqs, E)
                  /\ qq' = qq + 1
                  /\ UNCHANGED ppc
          ELSE /\ ppc' = o.status
               /\ UNCHANGED <<qq, ema, missing, Eqs>>
    /\ UNCHANGED <<ns, rows, printed>>
    /\ UNCHANGED <<rootVars, sieveVars, callVars, mainVars>>

\* lines 46-47: the loop is over, the sum is scaled, the share computed as
\* on line 140 of replicate_tail.py, and the record printed
PerQFinish ==
    /\ ppc = "loop"
    /\ qq > ns.Qcap
    /\ ema' = FloatMul(ema, FloatDiv(ns.CW, ns.R))
    /\ \E share \in {TailShare(ns.K, ns.S, ns.N, ns.L)} :
          IF share.status # "ok" \/ IsZero(share.value)
            THEN /\ ppc' = "ZeroDivisionError"
                 /\ UNCHANGED printed
            ELSE /\ ppc' = "printed"
                 /\ printed' = [N |-> ns.N, Qcap |-> ns.Qcap, Missing |-> missing,
                                EMA |-> ema', Share |-> share.value,
                                Ratio |-> FloatDiv(ema', share.value)]
    /\ UNCHANGED <<ns, rows, qq, missing, Eqs>>
    /\ UNCHANGED <<rootVars, sieveVars, callVars, mainVars>>

NextPerQ == PerQStep \/ PerQFinish

SpecPerQ == InitPerQ /\ [][NextPerQ]_vars

\* the float x > 0 or x = 0 agrees with the exact value
\* (cw / r) * env * frac to 2^-48 of that value, cw, r and env floats and
\* frac a fraction: with x = mx * 2^ex and the value = A / B * 2^t,
\* |mx * B * 2^ex - A * 2^t| * 2^48 <= A * 2^t
NearClosedForm(x, cw, r, env, frac) ==
    LET A == MulDigits(MulDigits(cw.m, env.m), DigitsOfInt(frac[1]))
        B == MulDigits(r.m, DigitsOfInt(frac[2]))
        t == cw.e + env.e - r.e
        s == IF x.e < t THEN x.e ELSE t
    IN  Bind(<<ShiftLeft(MulDigits(x.m, B), x.e - s), ShiftLeft(A, t - s)>>,
             LAMBDA v : ~MagLess(v[2], ShiftLeft(Distance(v[1], v[2]), 48)))

\* C10 as stated: the Missing printed is the number of q in 2..Qcap for
\* which the table holds no row; each such q contributes the fallback
\* envelope and each q with a row contributes that row's form; with an empty
\* table EMA is the closed form (CW/R) * E_fallback * sum_{q=2..Qcap}
\* 1/(q*phi(q)), up to the rounding of the float operations.
C10_MissingCountsAbsentRows ==
    ppc = "printed" =>
        /\ printed.Missing = Cardinality({q \in 2 .. ns.Qcap : q \notin DOMAIN rows})
        /\ \A q \in 2 .. ns.Qcap :
              q \notin DOMAIN rows => Eqs[q - 1] = Fallback(ns)
        /\ \A q \in 2 .. ns.Qcap :
              (q \in DOMAIN rows /\ "form" \in DOMAIN rows[q])
                  => Eqs[q - 1] = RowForm(rows[q]["form"],
                                          FloatOfText(rows[q]["c1"]).value,
                                          FloatOfText(rows[q]["c2"]).value,
                                          ns.N, ns.L)
        /\ rows = <<>> =>
              NearClosedForm(printed.EMA, ns.CW, ns.R, Fallback(ns),
                             harmonic_sum_fraction(ns.Qcap).value)

====
